---- MODULE Spec2Model ----
(***************************************************************************)
(* A model of the Subconscious cognitive middleware: the four-layer memory *)
(* manager (working / episodic / semantic / procedural) and the cognitive  *)
(* graph (typed multigraph, reinforcement, spreading activation, decay).   *)
(*                                                                         *)
(* Numbers.  The program computes on floats; the model computes on fixed   *)
(* point integers.  Importances and edge weights are in hundredths         *)
(* (0.6 is 60, 0.05 is 5); activations, strengths and decay rates are in   *)
(* millionths (1.0 is 1000000); the products of activate, which multiply a *)
(* strength by SPREAD_FACTOR and an edge weight, are truncated to a        *)
(* millionth.  Float rounding noise (0.5 + 4 * 0.05 evaluates to           *)
(* 0.7000000000000002 in the program) is below the model.                  *)
(***************************************************************************)
EXTENDS Integers, Sequences, FiniteSets, TLC

VARIABLES
    capacity,     \* WorkingMemory.capacity
    working,      \* WorkingMemory._items, oldest first
    episodic,     \* rows of the episodes table
    semantic,     \* documents of the semantic collection
    procedural,   \* rows of the procedures table
    nextId,       \* the number of MemoryRecords constructed so far (uuid4 freshness)
    pushed,       \* history: the items pushed onto working memory since its last clear
    evicted,      \* history: the items the deque dropped on a push, oldest first
    nodes,        \* CognitiveGraph._graph.nodes: node id -> attributes
    edges,        \* CognitiveGraph._graph.edges: records (source, target, key, data), in insertion order
    steps,        \* the number of operations performed
    ret,          \* the last operation: its name, its arguments and what it returned
    adapter,      \* Subconscious.adapter: "none" or "present"
    conversation, \* Subconscious._conversation
    saved,        \* the graph document at CognitiveGraph._persist_path
    dreams,       \* DreamProcessor._dreams
    running,      \* DreamProcessor._running
    errors,       \* the number of dream-cycle errors the loop has logged
    pc,           \* the position of each thread
    frame         \* the local variables of the call each thread is in

vars == <<capacity, working, episodic, semantic, procedural, nextId,
          pushed, evicted, nodes, edges, steps, ret,
          adapter, conversation, saved, dreams, running, errors, pc, frame>>

memVars == <<capacity, working, episodic, semantic, procedural, nextId, pushed, evicted>>

mindVars == <<adapter, conversation, saved, dreams, running, errors, pc, frame>>

----------------------------------------------------------------------------
(* Bounds of the model *)

MaxCapacity == 3
MaxOps == 4
MaxEdgeOps == 5
MaxWeightOps == 5
MaxActOps == 5
MaxSpreadOps == 5
MaxThinkOps == 3
MaxCreativeOps == 3
MaxDreamOps == 5
MaxCycles == 3
MaxConcurrentOps == 3
MaxThreadOps == 2
MaxPersistOps == 5
MaxWalkOps == 3
MaxConsolidateOps == 4
MaxConceptOps == 4
MaxLearnOps == 3
MaxResetOps == 3
MaxDocumentThinks == 2
MaxRecallOps == 4
MaxAloneOps == 3

(* Program constants, in hundredths *)

IMPORTANT == 60
OVERFLOW_IMPORTANCE == 40

----------------------------------------------------------------------------
(* Memory types (core/types.py) *)

WORKING == "working"
EPISODIC == "episodic"
SEMANTIC == "semantic"
PROCEDURAL == "procedural"
MemoryType == {WORKING, EPISODIC, SEMANTIC, PROCEDURAL}

(* Inputs of remember *)
Utterances == {[content |-> "t1", source |-> "user"],
               [content |-> "t2", source |-> "learn"]}
Importances == {59, 60}

(* Python's None, as returned by push when nothing overflows *)
None == [content |-> "", role |-> "None", memory_id |-> 0]

MemoryRecord(id, content, memory_type, importance, source) ==
    [memory_id |-> id, content |-> content, memory_type |-> memory_type,
     importance |-> importance, source |-> source]

(* The role remember gives the working-memory item *)
Role(source) == IF source \in {"user", "assistant"} THEN source ELSE "system"

WorkingItem(content, source, id) ==
    [content |-> content, role |-> Role(source), memory_id |-> id]

(* Mutant: a deque without maxlen *)
MutDequeAppend(items, cap, item) == Append(items, item)

(* deque(maxlen = cap).append: a full deque drops its left end *)
DequeAppend(items, cap, item) ==
    IF Len(items) >= cap THEN Append(Tail(items), item) ELSE Append(items, item)

(* History: what that append drops from the left end *)
Dropped(items, cap) ==
    IF Len(items) >= cap THEN <<Head(items)>> ELSE <<>>

(* Mutant: push returns the newest item instead of the oldest *)
MutPushOverflow(items, cap) ==
    IF Len(items) >= cap THEN items[Len(items)] ELSE None

(* What WorkingMemory.push returns: the oldest item when already full *)
PushOverflow(items, cap) ==
    IF Len(items) >= cap THEN Head(items) ELSE None

(* INSERT OR REPLACE / upsert keyed by memory_id *)
Store(store, record) ==
    {r \in store : r.memory_id # record.memory_id} \cup {record}

(* Python truthiness of the value push returned *)
Truthy(item) == item # None

(* Mutant: the overflow record keeps MemoryRecord's default importance *)
MutOverflowRecord(id, overflow) ==
    MemoryRecord(id, overflow.content, EPISODIC, 50, "working_overflow")

(* The record remember builds for an evicted item *)
OverflowRecord(id, overflow) ==
    MemoryRecord(id, overflow.content, EPISODIC, OVERFLOW_IMPORTANCE, "working_overflow")

(* Mutant: a WORKING record is routed to no store *)
MutRoute(memory_type) ==
    IF memory_type = EPISODIC THEN "episodic"
    ELSE IF memory_type = SEMANTIC THEN "semantic"
    ELSE IF memory_type = PROCEDURAL THEN "procedural"
    ELSE "none"

(* The store remember routes a record of the given type to *)
Route(memory_type) ==
    IF memory_type = EPISODIC THEN "episodic"
    ELSE IF memory_type = SEMANTIC THEN "semantic"
    ELSE IF memory_type = PROCEDURAL THEN "procedural"
    ELSE "episodic"

(* Mutant: only records above the threshold are mirrored *)
MutMirrored(importance) == importance > IMPORTANT

(* Whether remember mirrors the record into the semantic store *)
Mirrored(importance) == importance >= IMPORTANT

----------------------------------------------------------------------------
(* WorkingMemory.push, called directly *)
Push(item) ==
    /\ working' = DequeAppend(working, capacity, item)
    /\ pushed' = Append(pushed, item)
    /\ evicted' = evicted \o Dropped(working, capacity)
    /\ ret' = [op |-> "push", item |-> item,
               overflow |-> PushOverflow(working, capacity)]
    /\ steps' = steps + 1
    /\ UNCHANGED mindVars
    /\ UNCHANGED <<capacity, episodic, semantic, procedural, nextId, nodes, edges>>

(* WorkingMemory.clear *)
Clear ==
    /\ working' = <<>>
    /\ pushed' = <<>>
    /\ ret' = [op |-> "clear", item |-> None, overflow |-> None]
    /\ steps' = steps + 1
    /\ UNCHANGED mindVars
    /\ UNCHANGED <<capacity, episodic, semantic, procedural, nextId, evicted,
                   nodes, edges>>

(* MemoryManager.remember *)
Remember(content, memory_type, importance, source) ==
    LET id       == nextId + 1
        record   == MemoryRecord(id, content, memory_type, importance, source)
        overflow == PushOverflow(working, capacity)
        evicts   == Truthy(overflow)
        epi1     == IF evicts THEN Store(episodic, OverflowRecord(id + 1, overflow))
                    ELSE episodic
        route    == Route(memory_type)
        epi2     == IF route = "episodic" THEN Store(epi1, record) ELSE epi1
        sem1     == IF route = "semantic" THEN Store(semantic, record) ELSE semantic
        sem2     == IF Mirrored(importance) THEN Store(sem1, record) ELSE sem1
    IN  /\ working' = DequeAppend(working, capacity, WorkingItem(content, source, id))
        /\ pushed' = Append(pushed, WorkingItem(content, source, id))
        /\ evicted' = evicted \o Dropped(working, capacity)
        /\ episodic' = epi2
        /\ semantic' = sem2
        /\ procedural' = IF route = "procedural" THEN Store(procedural, record)
                         ELSE procedural
        /\ nextId' = IF evicts THEN id + 1 ELSE id
        /\ ret' = [op |-> "remember", record |-> record, overflow |-> overflow]
        /\ steps' = steps + 1
        /\ UNCHANGED mindVars
        /\ UNCHANGED <<capacity, nodes, edges>>

----------------------------------------------------------------------------
(* The cognitive graph (graph/cognitive.py) *)

(* Program constants: edge weights in hundredths, activations in millionths *)
REINFORCE_STEP == 5
MAX_WEIGHT == 100
DEFAULT_IMPORTANCE == 50
ONE == 1000000
ACTIVATION_DECAY == 100000
SPREAD_FACTOR == 60
BACK_EDGE_FACTOR == 70
CUTOFF == 10000

Min(a, b) == IF a <= b THEN a ELSE b
Max(a, b) == IF a >= b THEN a ELSE b

(* name.lower().strip() on the names the model uses *)
Norm(name) ==
    CASE name = " A " -> "a"
      [] name = "B"   -> "b"
      [] OTHER        -> name

NoNodes == [n \in {} |-> 0]

HasNode(ns, id) == id \in DOMAIN ns

(* Mutant: add_concept on an existing node takes the new importance and    *)
(* domain as they come                                                      *)
MutAddConceptTo(ns, name, domain, importance) ==
    LET id == Norm(name)
    IN  [n \in DOMAIN ns \cup {id} |->
           IF n = id
             THEN [name |-> name, domain |-> domain, importance |-> importance,
                   frequency |-> IF HasNode(ns, id) THEN ns[id].frequency + 1 ELSE 1,
                   activation |-> IF HasNode(ns, id) THEN ns[id].activation ELSE 0]
             ELSE ns[n]]

(* add_concept on the node map: update an existing node, or create one *)
AddConceptTo(ns, name, domain, importance) ==
    LET id == Norm(name)
    IN  IF HasNode(ns, id)
          THEN [ns EXCEPT ![id] =
                   [@ EXCEPT !.frequency = @ + 1,
                             !.importance = IF importance > @ THEN importance ELSE @,
                             !.domain = IF domain # "" /\ @ = "" THEN domain ELSE @]]
          ELSE [n \in DOMAIN ns \cup {id} |->
                   IF n = id
                     THEN [name |-> name, domain |-> domain, importance |-> importance,
                           frequency |-> 1, activation |-> 0]
                     ELSE ns[n]]

(* Mutant: remove_node leaves the incident edges in place *)
MutRemoveNode(g, id) ==
    [nodes |-> [n \in DOMAIN g.nodes \ {id} |-> g.nodes[n]], edges |-> g.edges]

(* MultiDiGraph.remove_node: the node and every edge incident to it *)
RemoveNode(g, id) ==
    [nodes |-> [n \in DOMAIN g.nodes \ {id} |-> g.nodes[n]],
     edges |-> SelectSeq(g.edges, LAMBDA e : e.source # id /\ e.target # id)]

Range(seq) == {seq[i] : i \in 1..Len(seq)}

(* The keys of the edges between src and tgt *)
Keys(es, src, tgt) == {e.key : e \in {x \in Range(es) : x.source = src /\ x.target = tgt}}

NoKey == -1

(* Mutant: _find_edge never finds the edge *)
MutFindEdge(g, src, tgt, edge_type) == NoKey

(* _find_edge: the key of the first edge of that type between src and tgt *)
FindEdge(g, src, tgt, edge_type) ==
    LET ks == {e.key : e \in {x \in Range(g.edges) :
                  x.source = src /\ x.target = tgt /\ x.edge_type = edge_type}}
    IN  IF ~HasNode(g.nodes, src) \/ ~HasNode(g.nodes, tgt) \/ ks = {}
          THEN NoKey
          ELSE CHOOSE k \in ks : \A j \in ks : k <= j

(* MultiDiGraph.new_edge_key: the number of edges between the pair, raised  *)
(* until unused                                                            *)
NewEdgeKey(es, src, tgt) ==
    LET ks == Keys(es, src, tgt)
        n  == Cardinality(ks)
    IN  CHOOSE k \in n..(2 * n) : k \notin ks /\ \A j \in n..(k - 1) : j \in ks

(* The reinforcement of an existing edge *)
Reinforce(e) ==
    [e EXCEPT !.weight = Min(MAX_WEIGHT, @ + REINFORCE_STEP),
              !.reinforced_count = @ + 1]

(* connect on a graph value [nodes, edges] *)
ConnectIn(g, source, target, edge_type, weight, confidence) ==
    LET src == Norm(source)
        tgt == Norm(target)
        ns1 == IF HasNode(g.nodes, src) THEN g.nodes
               ELSE AddConceptTo(g.nodes, source, "", DEFAULT_IMPORTANCE)
        ns2 == IF HasNode(ns1, tgt) THEN ns1
               ELSE AddConceptTo(ns1, target, "", DEFAULT_IMPORTANCE)
        g2  == [nodes |-> ns2, edges |-> g.edges]
        existing_key == FindEdge(g2, src, tgt, edge_type)
    IN  IF existing_key # NoKey
          THEN [nodes |-> ns2,
                edges |-> [i \in 1..Len(g.edges) |->
                             IF /\ g.edges[i].source = src /\ g.edges[i].target = tgt
                                /\ g.edges[i].key = existing_key
                               THEN Reinforce(g.edges[i]) ELSE g.edges[i]]]
          ELSE [nodes |-> ns2,
                edges |-> Append(g.edges,
                             [source |-> src, target |-> tgt,
                              key |-> NewEdgeKey(g.edges, src, tgt),
                              edge_type |-> edge_type, weight |-> weight,
                              confidence |-> confidence, reinforced_count |-> 1])]

(* connect_cooccurrence: connect every pair (i < j) of names that differ    *)
(* after normalisation, in the order of the two nested loops               *)
(* Mutant: connect_cooccurrence connects only neighbouring concepts *)
RECURSIVE MutCooccurrenceFrom(_, _, _, _, _)
MutCooccurrenceFrom(g, concepts, i, j, weight) ==
    IF i >= Len(concepts) THEN g
    ELSE MutCooccurrenceFrom(
            IF Norm(concepts[i]) # Norm(concepts[i + 1])
              THEN ConnectIn(g, concepts[i], concepts[i + 1], "cooccurrence", weight, 100)
              ELSE g,
            concepts, i + 1, j, weight)

RECURSIVE CooccurrenceFrom(_, _, _, _, _)
CooccurrenceFrom(g, concepts, i, j, weight) ==
    IF i > Len(concepts) THEN g
    ELSE IF j > Len(concepts) THEN CooccurrenceFrom(g, concepts, i + 1, i + 2, weight)
    ELSE CooccurrenceFrom(
            IF Norm(concepts[i]) # Norm(concepts[j])
              THEN ConnectIn(g, concepts[i], concepts[j], "cooccurrence", weight, 100)
              ELSE g,
            concepts, i, j + 1, weight)

Graph == [nodes |-> nodes, edges |-> edges]

(* Spreading activation *)

(* Mutant: propagation without the spread factor *)
MutPropagated(strength, weight) == (strength * weight) \div 100

(* current_strength * spread * edge_weight *)
Propagated(strength, weight) == ((((strength * SPREAD_FACTOR) \div 100) * weight) \div 100)

(* The queue entries a visited node adds: its outgoing edges, then its      *)
(* incoming edges with the back-edge attenuation, each kept when the        *)
(* neighbour is unvisited and the propagated strength exceeds the cutoff    *)
RECURSIVE Spread(_, _, _, _, _, _)
Spread(es, i, current, strength, depth, visited) ==
    IF i > 2 * Len(es) THEN <<>>
    ELSE LET out  == i <= Len(es)
             e    == IF out THEN es[i] ELSE es[i - Len(es)]
             here == IF out THEN e.source ELSE e.target
             nbr  == IF out THEN e.target ELSE e.source
             p    == IF out THEN Propagated(strength, e.weight)
                     ELSE (Propagated(strength, e.weight) * BACK_EDGE_FACTOR) \div 100
             rest == Spread(es, i + 1, current, strength, depth, visited)
         IN  IF here = current /\ nbr \notin visited /\ p > CUTOFF
               THEN <<[node |-> nbr, strength |-> p, depth |-> depth + 1]>> \o rest
               ELSE rest

(* The while loop of activate, from a queue to the final node map and the   *)
(* returned mapping                                                         *)
RECURSIVE ActivateLoop(_, _, _, _, _, _)
ActivateLoop(ns, es, queue, visited, activated, depth) ==
    IF queue = <<>> THEN [nodes |-> ns, activated |-> activated]
    ELSE LET cur == Head(queue)
         IN  IF cur.node \in visited \/ cur.depth > depth
               THEN ActivateLoop(ns, es, Tail(queue), visited, activated, depth)
               ELSE LET new_activation == Min(ONE, ns[cur.node].activation + cur.strength)
                        ns2  == [ns EXCEPT ![cur.node].activation = new_activation]
                        vis2 == visited \cup {cur.node}
                        act2 == [n \in DOMAIN activated \cup {cur.node} |->
                                    IF n = cur.node THEN new_activation ELSE activated[n]]
                        more == IF cur.depth < depth
                                  THEN Spread(es, 1, cur.node, cur.strength, cur.depth, vis2)
                                  ELSE <<>>
                    IN  ActivateLoop(ns2, es, Tail(queue) \o more, vis2, act2, depth)

(* Mutant: activate spreads one hop further than asked *)
MutActivateIn(g, name, strength, depth) ==
    IF ~HasNode(g.nodes, Norm(name))
      THEN [nodes |-> g.nodes, activated |-> NoNodes]
      ELSE ActivateLoop(g.nodes, g.edges,
                        <<[node |-> Norm(name), strength |-> strength, depth |-> 0]>>,
                        {}, NoNodes, depth + 1)

(* activate on a graph value: the node map after the call and the mapping   *)
(* the call returns                                                         *)
ActivateIn(g, name, strength, depth) ==
    LET node_id == Norm(name)
    IN  IF ~HasNode(g.nodes, node_id)
          THEN [nodes |-> g.nodes, activated |-> NoNodes]
          ELSE ActivateLoop(g.nodes, g.edges,
                            <<[node |-> node_id, strength |-> strength, depth |-> 0]>>,
                            {}, NoNodes, depth)

(* rate = rate or settings.ACTIVATION_DECAY: None and 0 both fall back *)
EffectiveRate(rate) ==
    IF ~rate.given \/ rate.value = 0 THEN ACTIVATION_DECAY ELSE rate.value

Decayed(activation, rate) == Max(0, activation - rate)

----------------------------------------------------------------------------
(* The operations of the graph *)

(* CognitiveGraph.add_concept *)
AddConcept(name, domain, importance) ==
    /\ nodes' = AddConceptTo(nodes, name, domain, importance)
    /\ ret' = [op |-> "add_concept", name |-> name, domain |-> domain,
               importance |-> importance, before |-> Graph]
    /\ steps' = steps + 1
    /\ UNCHANGED mindVars
    /\ UNCHANGED <<capacity, working, episodic, semantic, procedural, nextId,
                   pushed, evicted, edges>>

(* CognitiveGraph.remove_concept *)
RemoveConcept(name) ==
    LET g == IF HasNode(nodes, Norm(name)) THEN RemoveNode(Graph, Norm(name)) ELSE Graph
    IN  /\ nodes' = g.nodes
        /\ edges' = g.edges
        /\ ret' = [op |-> "remove_concept", name |-> name, before |-> Graph]
        /\ steps' = steps + 1
        /\ UNCHANGED mindVars
        /\ UNCHANGED <<capacity, working, episodic, semantic, procedural, nextId,
                       pushed, evicted>>

(* History: how many connect calls in a row, the first of which created     *)
(* the edge, have addressed the same (source, target, type); 0 when the     *)
(* last call is not part of such a run                                      *)
Run(src, tgt, edge_type, weight) ==
    IF /\ ret.op = "connect" /\ ret.k >= 1
       /\ ret.src = src /\ ret.tgt = tgt /\ ret.edge_type = edge_type
      THEN [k |-> ret.k + 1, w0 |-> ret.w0]
    ELSE IF FindEdge(Graph, src, tgt, edge_type) = NoKey
      THEN [k |-> 1, w0 |-> weight]
    ELSE [k |-> 0, w0 |-> weight]

(* CognitiveGraph.connect *)
Connect(source, target, edge_type, weight, confidence) ==
    LET g   == ConnectIn(Graph, source, target, edge_type, weight, confidence)
        run == Run(Norm(source), Norm(target), edge_type, weight)
    IN  /\ nodes' = g.nodes
        /\ edges' = g.edges
        /\ ret' = [op |-> "connect", src |-> Norm(source), tgt |-> Norm(target),
                   edge_type |-> edge_type, weight |-> weight, raised |-> FALSE,
                   k |-> run.k, w0 |-> run.w0, before |-> Graph]
        /\ steps' = steps + 1
        /\ UNCHANGED mindVars
        /\ UNCHANGED <<capacity, working, episodic, semantic, procedural, nextId,
                       pushed, evicted>>

(* CognitiveGraph.connect_cooccurrence *)
ConnectCooccurrence(concepts, weight) ==
    LET g == CooccurrenceFrom(Graph, concepts, 1, 2, weight)
    IN  /\ nodes' = g.nodes
        /\ edges' = g.edges
        /\ ret' = [op |-> "connect_cooccurrence", concepts |-> concepts,
                   weight |-> weight, before |-> Graph]
        /\ steps' = steps + 1
        /\ UNCHANGED mindVars
        /\ UNCHANGED <<capacity, working, episodic, semantic, procedural, nextId,
                       pushed, evicted>>

(* CognitiveGraph.activate *)
Activate(name, strength, depth) ==
    LET r == ActivateIn(Graph, name, strength, depth)
    IN  /\ nodes' = r.nodes
        /\ ret' = [op |-> "activate", name |-> name, strength |-> strength,
                   depth |-> depth, activated |-> r.activated, before |-> Graph]
        /\ steps' = steps + 1
        /\ UNCHANGED mindVars
        /\ UNCHANGED <<capacity, working, episodic, semantic, procedural, nextId,
                       pushed, evicted, edges>>

(* CognitiveGraph.decay_all *)
DecayAll(rate) ==
    /\ nodes' = [n \in DOMAIN nodes |->
                    [nodes[n] EXCEPT !.activation = Decayed(@, EffectiveRate(rate))]]
    /\ ret' = [op |-> "decay_all", rate |-> rate, before |-> Graph]
    /\ steps' = steps + 1
    /\ UNCHANGED mindVars
    /\ UNCHANGED <<capacity, working, episodic, semantic, procedural, nextId,
                   pushed, evicted, edges>>

----------------------------------------------------------------------------
(* The orchestrator (core/mind.py), its creative engine                     *)
(* (creative/engine.py) and its dream processor (processor/dream.py).       *)
(*                                                                          *)
(* A call is a sequence of steps of the calling thread: pc[t] is the        *)
(* statement the thread is at and frame[t] holds the call's locals.  A call *)
(* into the graph (activate, add_concept, connect, decay_all, save) takes   *)
(* two steps, entering the method and completing it: frame[t].inop names    *)
(* the graph method the thread is inside.  The program takes no lock, so    *)
(* nothing guards the entry.                                                *)

(* Number of threads: the caller's thread and the dream loop's workers *)
Workers == {"w1", "w2"}
(* The threads of the caller: think, learn and dream are called on them *)
Callers == {"fg", "fg2"}

Threads == Callers \cup Workers

(* Program constants *)
THINK_STRENGTH == 800000
THINK_DEPTH == 2
USER_IMPORTANCE == 50
RESPONSE_IMPORTANCE == 40
N_CREATIVE == 2
LEARN_IMPORTANCE == 70
LEARN_WEIGHT == 40
COOCCURRENCE_WEIGHT == 30
RECALL_RESULTS == 5
RECENT_LIMIT == 20
PRUNE_KEEP == 500
WALKS == 3
WALK_STEPS == 4
DISCOVERY_WEIGHT == 20
DISCOVERY_CONFIDENCE == 30
DREAM_SPARKS == 2

(* _extract_concepts on the messages the model uses *)
ExtractConcepts(message) ==
    CASE message = "m_xyz" -> <<"x", "y", "z">>
      [] message = "m_xy" -> <<"x", "y">>
      [] message = "m_yz" -> <<"y", "z">>
      [] message = "m_z"  -> <<"z">>
      [] message = "m_x"  -> <<"x">>
      [] OTHER            -> <<>>

NoFile == [exists |-> FALSE, nodes |-> {}, edges |-> <<>>]

(* Mutant: save leaves no document *)
MutNodeLinkData(g) == [exists |-> FALSE, nodes |-> {}, edges |-> <<>>]

(* nx.node_link_data: the node list and the edge list of the document *)
NodeLinkData(g) ==
    [exists |-> TRUE,
     nodes |-> {[id |-> n, data |-> g.nodes[n]] : n \in DOMAIN g.nodes},
     edges |-> g.edges]

(* Mutant: loading forgets how often an edge was reinforced *)
MutNodeLinkGraph(data) ==
    [nodes |-> [n \in {x.id : x \in data.nodes} |->
                   (CHOOSE x \in data.nodes : x.id = n).data],
     edges |-> [i \in 1..Len(data.edges) |->
                   [data.edges[i] EXCEPT !.reinforced_count = 1]]]

(* nx.node_link_graph: a node for every entry of the node list, with the    *)
(* entry's attributes, and an edge for every entry of the edge list, under  *)
(* the entry's key                                                          *)
NodeLinkGraph(data) ==
    [nodes |-> [n \in {x.id : x \in data.nodes} |->
                   (CHOOSE x \in data.nodes : x.id = n).data],
     edges |-> data.edges]

(* CognitiveGraph.__init__ and _load: the empty graph unless the file       *)
(* exists                                                                   *)
LoadFrom(file) ==
    IF file.exists THEN NodeLinkGraph(file) ELSE [nodes |-> NoNodes, edges |-> <<>>]

(* CognitiveGraph.save, called on its own *)
Save ==
    /\ saved' = NodeLinkData(Graph)
    /\ ret' = [op |-> "save", before |-> Graph]
    /\ steps' = steps + 1
    /\ UNCHANGED memVars
    /\ UNCHANGED <<nodes, edges, adapter, conversation, dreams, running, errors,
                   pc, frame>>

(* A fresh CognitiveGraph on the same path takes the place of the graph *)
Reload ==
    LET g == LoadFrom(saved)
    IN  /\ nodes' = g.nodes
        /\ edges' = g.edges
        /\ ret' = [op |-> "load", before |-> Graph]
        /\ steps' = steps + 1
        /\ UNCHANGED memVars
        /\ UNCHANGED mindVars

Report0 ==
    [memories_consolidated |-> 0, memories_pruned |-> 0, new_connections |-> 0,
     hypotheses_generated |-> <<>>]

(* The local overflow of remember before push has returned *)
Unread == [content |-> "", role |-> "Unread", memory_id |-> 0]

(* The locals of a call; mark and trace are history: the number of dream    *)
(* reports when the call began, and the side effects of the call so far;    *)
(* stored and before (history) are the episodic store and the graph's       *)
(* nodes when a think began.                                                *)
(* old_activation is the seed's activation as activate read it, overwritten *)
(* (history) the activation the seed had when activate wrote it             *)
Frame0 ==
    [call |-> "none", message |-> "", concepts |-> <<>>, i |-> 1, recalled |-> 0,
     activated |-> NoNodes, response |-> "", failed |-> FALSE, sparks |-> <<>>,
     walk |-> <<>>, report |-> Report0, mark |-> 0, inop |-> "none", trace |-> <<>>,
     old_activation |-> 0, overwritten |-> 0, overflow |-> Unread, stored |-> {},
     before |-> NoNodes]

(* What a call hands back to its caller *)
Returned(f, raised) ==
    [op |-> f.call, raised |-> raised, message |-> f.message, concepts |-> f.concepts,
     response |-> f.response, failed |-> f.failed, recalled |-> f.recalled,
     activated |-> f.activated, sparks |-> f.sparks, report |-> f.report,
     mark |-> f.mark, trace |-> f.trace]

(* dict.update *)
Update(f, g) ==
    [n \in DOMAIN f \cup DOMAIN g |-> IF n \in DOMAIN g THEN g[n] ELSE f[n]]

(* The memory manager as a value *)
Memory ==
    [working |-> working, episodic |-> episodic, semantic |-> semantic,
     procedural |-> procedural, nextId |-> nextId, pushed |-> pushed,
     evicted |-> evicted]

(* MemoryManager.remember on a memory value, from the point where push has  *)
(* read the item it will return: the append, the overflow record, the       *)
(* routing and the mirror                                                   *)
RememberWith(m, overflow, content, memory_type, importance, source) ==
    LET id       == m.nextId + 1
        record   == MemoryRecord(id, content, memory_type, importance, source)
        evicts   == Truthy(overflow)
        epi1     == IF evicts THEN Store(m.episodic, OverflowRecord(id + 1, overflow))
                    ELSE m.episodic
        route    == Route(memory_type)
        epi2     == IF route = "episodic" THEN Store(epi1, record) ELSE epi1
        sem1     == IF route = "semantic" THEN Store(m.semantic, record) ELSE m.semantic
        sem2     == IF Mirrored(importance) THEN Store(sem1, record) ELSE sem1
    IN  [working |-> DequeAppend(m.working, capacity, WorkingItem(content, source, id)),
         episodic |-> epi2,
         semantic |-> sem2,
         procedural |-> IF route = "procedural" THEN Store(m.procedural, record)
                        ELSE m.procedural,
         nextId |-> IF evicts THEN id + 1 ELSE id,
         pushed |-> Append(m.pushed, WorkingItem(content, source, id)),
         evicted |-> m.evicted \o Dropped(m.working, capacity)]

(* MemoryManager.remember on a memory value, run without interruption *)
RememberIn(m, content, memory_type, importance, source) ==
    RememberWith(m, PushOverflow(m.working, capacity), content, memory_type,
                 importance, source)

SetMemory(m) ==
    /\ working' = m.working
    /\ episodic' = m.episodic
    /\ semantic' = m.semantic
    /\ procedural' = m.procedural
    /\ nextId' = m.nextId
    /\ pushed' = m.pushed
    /\ evicted' = m.evicted
    /\ UNCHANGED capacity

(* MemoryManager.recall, as the number of results over the four layers:     *)
(* substring search is equality on the model's contents, the semantic       *)
(* search returns the nearest documents whatever the query                  *)
RecallCount(m, query) ==
    Cardinality({i \in 1..Len(m.working) : m.working[i].content = query})
      + Min(RECALL_RESULTS, Cardinality({r \in m.episodic : r.content = query}))
      + Min(RECALL_RESULTS, Cardinality(m.semantic))
      + Min(RECALL_RESULTS, Cardinality({r \in m.procedural : r.content = query}))

(* recall(query): the working-memory items whose content holds the query,  *)
(* the very items the deque holds (get_context copies the list, not the     *)
(* dicts), and copies of the records the stores find                        *)
RecallResults(m, query) ==
    [working    |-> {i \in 1..Len(m.working) : m.working[i].content = query},
     episodic   |-> {r \in m.episodic : r.content = query},
     semantic   |-> m.semantic,
     procedural |-> {r \in m.procedural : r.content = query}]

(* MemoryManager.recall, called directly *)
Recall(query) ==
    /\ ret' = [op |-> "recall", query |-> query, before |-> Memory,
               results |-> RecallResults(Memory, query)]
    /\ steps' = steps + 1
    /\ UNCHANGED <<memVars, nodes, edges>>
    /\ UNCHANGED mindVars

(* item["_layer"] = layer *)
Annotated(item, layer) ==
    [k \in DOMAIN item \cup {"_layer"} |-> IF k = "_layer" THEN layer ELSE item[k]]

(* MemoryManager.recall_flat: recall, then every result is given its layer; *)
(* the working results are the dicts of the deque                           *)
RecallFlat(query) ==
    LET results == RecallResults(Memory, query)
    IN  /\ working' = [i \in 1..Len(working) |->
                         IF i \in results.working
                           THEN Annotated(working[i], "working") ELSE working[i]]
        /\ ret' = [op |-> "recall_flat", query |-> query, before |-> Memory,
                   results |-> results]
        /\ steps' = steps + 1
        /\ UNCHANGED <<capacity, episodic, semantic, procedural, nextId, pushed, evicted,
                       nodes, edges>>
        /\ UNCHANGED mindVars

(* The outcome of a provider call (adapter.chat, adapter.generate) *)
Outcomes == {"ok", "raise"}

(* The idea text of a spark: generated by the provider, or the placeholder  *)
(* that names the source concepts                                           *)
Idea == IF adapter = "present" THEN "generated" ELSE "placeholder"

(* CreativeEngine.spark(n = n): one idea per strategy drawn *)
Sparks(n) == [k \in 1..n |-> Idea]

(* The thread's position and locals *)
Goto(t, label) == pc' = [pc EXCEPT ![t] = label]

SetFrame(t, f) == frame' = [frame EXCEPT ![t] = f]

Logged(f, event) == [f EXCEPT !.trace = Append(@, event)]

(* An exception leaves the call: the caller of think, learn or dream sees   *)
(* it; in the dream loop the except clause of _loop is next                 *)
Raise(t, f) ==
    IF f.call = "loop"
      THEN /\ Goto(t, "loop_except")
           /\ SetFrame(t, [f EXCEPT !.inop = "none"])
           /\ UNCHANGED ret
      ELSE /\ Goto(t, "idle")
           /\ SetFrame(t, Frame0)
           /\ ret' = Returned(f, TRUE)

----------------------------------------------------------------------------
(* Subconscious.think *)

(* Mutant: think adds its concepts before it activates them *)
MutAddFirst(label) ==
    CASE label = "think_recall"            -> "think_add"
      [] label = "think_add"               -> "think_activate"
      [] label = "think_activate"          -> "think_connect"
      [] label = "think_connect"           -> "think_chat"
      [] label = "think_chat"              -> "think_conversation"
      [] label = "think_conversation"      -> "think_remember_user"
      [] label = "think_remember_user"     -> "think_remember_response"
      [] label = "think_remember_response" -> "think_spark"
      [] label = "think_spark"             -> "think_save"
      [] label = "think_save"              -> "think_return"

(* Mutant: think saves the graph before it stores the turns *)
MutThinkNext(label) ==
    CASE label = "think_recall"            -> "think_activate"
      [] label = "think_activate"          -> "think_add"
      [] label = "think_add"               -> "think_connect"
      [] label = "think_connect"           -> "think_chat"
      [] label = "think_chat"              -> "think_conversation"
      [] label = "think_conversation"      -> "think_save"
      [] label = "think_save"              -> "think_remember_user"
      [] label = "think_remember_user"     -> "think_remember_response"
      [] label = "think_remember_response" -> "think_spark"
      [] label = "think_spark"             -> "think_return"

(* The statements of think, in program order *)
ThinkNext(label) ==
    CASE label = "think_recall"            -> "think_activate"
      [] label = "think_activate"          -> "think_add"
      [] label = "think_add"               -> "think_connect"
      [] label = "think_connect"           -> "think_chat"
      [] label = "think_chat"              -> "think_conversation"
      [] label = "think_conversation"      -> "think_remember_user"
      [] label = "think_remember_user"     -> "think_remember_response"
      [] label = "think_remember_response" -> "think_spark"
      [] label = "think_spark"             -> "think_save"
      [] label = "think_save"              -> "think_return"

(* think(message): extract the concepts *)
ThinkCall(t, message) ==
    /\ pc[t] = "idle"
    /\ Goto(t, "think_recall")
    /\ SetFrame(t, [Frame0 EXCEPT !.call = "think", !.message = message,
                                  !.concepts = ExtractConcepts(message),
                                  !.stored = episodic, !.before = nodes])
    /\ steps' = steps + 1
    /\ UNCHANGED <<memVars, nodes, edges, ret, adapter, conversation, saved, dreams,
                   running, errors>>

(* memory.recall(message, n_results = 5) *)
ThinkRecall(t) ==
    /\ pc[t] = "think_recall"
    /\ Goto(t, ThinkNext("think_recall"))
    /\ SetFrame(t, Logged([frame[t] EXCEPT !.recalled = RecallCount(Memory, frame[t].message)],
                          "recall"))
    /\ UNCHANGED <<memVars, nodes, edges, steps, ret, adapter, conversation, saved,
                   dreams, running, errors>>

(* The activation of a node, 0 for a name that is not in the graph *)
ActivationOf(g, name) == IF name \in DOMAIN g.nodes THEN g.nodes[name].activation ELSE 0

(* The graph as an activate sees it that read its seed's activation (the    *)
(* program takes no lock) before the other threads' latest writes           *)
WithRead(g, name, read) ==
    IF name \in DOMAIN g.nodes
      THEN [g EXCEPT !.nodes[name].activation = read]
      ELSE g

(* for concept in concepts: graph.activate(concept, strength = 0.8, depth = 2) *)
(* The seed's old_activation is read when the call is entered or later, and *)
(* written back, increased, when the call completes                         *)
ThinkActivate(t) ==
    LET f == frame[t]
    IN  /\ pc[t] = "think_activate"
        /\ IF f.i > Len(f.concepts)
             THEN /\ Goto(t, ThinkNext("think_activate"))
                  /\ SetFrame(t, [f EXCEPT !.i = 1])
                  /\ UNCHANGED nodes
             ELSE IF f.inop = "none"
               THEN /\ SetFrame(t, [f EXCEPT !.inop = "activate",
                                             !.old_activation =
                                                 ActivationOf(Graph, f.concepts[f.i]),
                                             !.overwritten =
                                                 ActivationOf(Graph, f.concepts[f.i])])
                    /\ UNCHANGED <<pc, nodes>>
               ELSE \E read \in {f.old_activation, ActivationOf(Graph, f.concepts[f.i])} :
                      LET r == ActivateIn(WithRead(Graph, f.concepts[f.i], read),
                                          f.concepts[f.i], THINK_STRENGTH, THINK_DEPTH)
                      IN  /\ nodes' = r.nodes
                          /\ SetFrame(t, Logged([f EXCEPT !.inop = "none", !.i = @ + 1,
                                                    !.activated = Update(@, r.activated),
                                                    !.old_activation = read,
                                                    !.overwritten =
                                                        ActivationOf(Graph, f.concepts[f.i])],
                                                "activate"))
                          /\ UNCHANGED pc
        /\ UNCHANGED <<memVars, edges, steps, ret, adapter, conversation, saved, dreams,
                       running, errors>>

(* for concept in concepts: graph.add_concept(concept) *)
ThinkAddConcept(t) ==
    LET f == frame[t]
    IN  /\ pc[t] = "think_add"
        /\ IF f.i > Len(f.concepts)
             THEN /\ Goto(t, ThinkNext("think_add"))
                  /\ SetFrame(t, [f EXCEPT !.i = 1])
                  /\ UNCHANGED nodes
             ELSE IF f.inop = "none"
               THEN /\ SetFrame(t, [f EXCEPT !.inop = "add_concept"])
                    /\ UNCHANGED <<pc, nodes>>
               ELSE /\ nodes' = AddConceptTo(nodes, f.concepts[f.i], "", DEFAULT_IMPORTANCE)
                    /\ SetFrame(t, Logged([f EXCEPT !.inop = "none", !.i = @ + 1],
                                          "add_concept"))
                    /\ UNCHANGED pc
        /\ UNCHANGED <<memVars, edges, steps, ret, adapter, conversation, saved, dreams,
                       running, errors>>

(* if len(concepts) > 1: graph.connect_cooccurrence(concepts) *)
ThinkConnect(t) ==
    LET f == frame[t]
    IN  /\ pc[t] = "think_connect"
        /\ IF Len(f.concepts) <= 1
             THEN /\ Goto(t, ThinkNext("think_connect"))
                  /\ UNCHANGED <<frame, nodes, edges>>
             ELSE IF f.inop = "none"
               THEN /\ SetFrame(t, [f EXCEPT !.inop = "connect"])
                    /\ UNCHANGED <<pc, nodes, edges>>
               ELSE LET g == CooccurrenceFrom(Graph, f.concepts, 1, 2, COOCCURRENCE_WEIGHT)
                    IN  /\ nodes' = g.nodes
                        /\ edges' = g.edges
                        /\ SetFrame(t, Logged([f EXCEPT !.inop = "none"],
                                              "connect_cooccurrence"))
                        /\ Goto(t, ThinkNext("think_connect"))
        /\ UNCHANGED <<memVars, steps, ret, adapter, conversation, saved, dreams,
                       running, errors>>

(* Mutant: the user's turn is in the conversation before the provider is   *)
(* called                                                                   *)
MutThinkChat(t) ==
    LET f == frame[t]
    IN  /\ pc[t] = "think_chat"
        /\ IF adapter = "present"
             THEN \E outcome \in Outcomes :
                    IF outcome = "ok"
                      THEN /\ Goto(t, ThinkNext("think_chat"))
                           /\ SetFrame(t, Logged([f EXCEPT !.response = "llm"], "llm"))
                           /\ UNCHANGED <<ret, conversation>>
                      ELSE /\ Raise(t, Logged([f EXCEPT !.failed = TRUE], "llm"))
                           /\ conversation' = Append(conversation,
                                                     [role |-> "user", content |-> f.message])
             ELSE /\ Goto(t, ThinkNext("think_chat"))
                  /\ SetFrame(t, [f EXCEPT !.response = "summary"])
                  /\ UNCHANGED <<ret, conversation>>
        /\ UNCHANGED <<memVars, nodes, edges, steps, adapter, saved,
                       dreams, running, errors>>

(* if self.adapter: response = adapter.chat(...)  else: the summary built   *)
(* from the recall results, the activation and the concepts                 *)
ThinkChat(t) ==
    LET f == frame[t]
    IN  /\ pc[t] = "think_chat"
        /\ IF adapter = "present"
             THEN \E outcome \in Outcomes :
                    IF outcome = "ok"
                      THEN /\ Goto(t, ThinkNext("think_chat"))
                           /\ SetFrame(t, Logged([f EXCEPT !.response = "llm"], "llm"))
                           /\ UNCHANGED ret
                      ELSE Raise(t, Logged([f EXCEPT !.failed = TRUE], "llm"))
             ELSE /\ Goto(t, ThinkNext("think_chat"))
                  /\ SetFrame(t, [f EXCEPT !.response = "summary"])
                  /\ UNCHANGED ret
        /\ UNCHANGED <<memVars, nodes, edges, steps, adapter, conversation, saved,
                       dreams, running, errors>>

(* Mutant: only the user's entry is appended to the conversation *)
MutThinkConversation(t) ==
    LET f == frame[t]
    IN  /\ pc[t] = "think_conversation"
        /\ conversation' = Append(conversation, [role |-> "user", content |-> f.message])
        /\ Goto(t, ThinkNext("think_conversation"))
        /\ SetFrame(t, Logged(f, "conversation"))
        /\ UNCHANGED <<memVars, nodes, edges, steps, ret, adapter, saved, dreams,
                       running, errors>>

(* self._conversation.append (user), self._conversation.append (assistant) *)
ThinkConversation(t) ==
    LET f == frame[t]
    IN  /\ pc[t] = "think_conversation"
        /\ conversation' = conversation
                             \o <<[role |-> "user", content |-> f.message],
                                  [role |-> "assistant", content |-> f.response]>>
        /\ Goto(t, ThinkNext("think_conversation"))
        /\ SetFrame(t, Logged(f, "conversation"))
        /\ UNCHANGED <<memVars, nodes, edges, steps, ret, adapter, saved, dreams,
                       running, errors>>

(* One remember of think, which takes no lock: push reads the item it will  *)
(* return (the oldest one when the deque is full) when remember is entered  *)
(* or later; the append and the stores follow when remember completes       *)
ThinkRemember(t, label, content, importance, source, event) ==
    LET f == frame[t]
    IN  /\ pc[t] = label
        /\ IF f.overflow = Unread
             THEN /\ SetFrame(t, [f EXCEPT !.overflow = PushOverflow(working, capacity)])
                  /\ UNCHANGED <<memVars, pc>>
             ELSE \E overflow \in {f.overflow, PushOverflow(working, capacity)} :
                    /\ SetMemory(RememberWith(Memory, overflow, content, EPISODIC,
                                              importance, source))
                    /\ Goto(t, ThinkNext(label))
                    /\ SetFrame(t, Logged([f EXCEPT !.overflow = Unread], event))
        /\ UNCHANGED <<nodes, edges, steps, ret, adapter, conversation, saved, dreams,
                       running, errors>>

(* memory.remember(message, EPISODIC, importance = 0.5, source = "user") *)
ThinkRememberUser(t) ==
    ThinkRemember(t, "think_remember_user", frame[t].message, USER_IMPORTANCE, "user",
                  "store_user")

(* memory.remember(response[:500], EPISODIC, importance = 0.4,              *)
(* source = "assistant")                                                    *)
ThinkRememberResponse(t) ==
    ThinkRemember(t, "think_remember_response", frame[t].response, RESPONSE_IMPORTANCE,
                  "assistant", "store_response")

(* if include_creative and len(graph nodes) >= 2:                           *)
(*     sparks = creative.spark(context = message, n = n_creative)           *)
ThinkSpark(t) ==
    LET f == frame[t]
    IN  /\ pc[t] = "think_spark"
        /\ IF Cardinality(DOMAIN nodes) >= 2
             THEN \E outcome \in (IF adapter = "present" THEN Outcomes ELSE {"ok"}) :
                    IF outcome = "ok"
                      THEN /\ Goto(t, ThinkNext("think_spark"))
                           /\ SetFrame(t, Logged([f EXCEPT !.sparks = Sparks(N_CREATIVE)],
                                                 "sparks"))
                           /\ UNCHANGED ret
                      ELSE Raise(t, Logged([f EXCEPT !.failed = TRUE], "sparks"))
             ELSE /\ Goto(t, ThinkNext("think_spark"))
                  /\ UNCHANGED <<frame, ret>>
        /\ UNCHANGED <<memVars, nodes, edges, steps, adapter, conversation, saved,
                       dreams, running, errors>>

(* graph.save() *)
ThinkSave(t) ==
    LET f == frame[t]
    IN  /\ pc[t] = "think_save"
        /\ IF f.inop = "none"
             THEN /\ SetFrame(t, [f EXCEPT !.inop = "save"])
                  /\ UNCHANGED <<pc, saved>>
             ELSE /\ saved' = NodeLinkData(Graph)
                  /\ SetFrame(t, Logged([f EXCEPT !.inop = "none"], "save"))
                  /\ Goto(t, ThinkNext("think_save"))
        /\ UNCHANGED <<memVars, nodes, edges, steps, ret, adapter, conversation, dreams,
                       running, errors>>

(* return ThinkResult(...) *)
ThinkReturn(t) ==
    /\ pc[t] = "think_return"
    /\ ret' = Returned(frame[t], FALSE)
    /\ Goto(t, "idle")
    /\ SetFrame(t, Frame0)
    /\ UNCHANGED <<memVars, nodes, edges, steps, adapter, conversation, saved, dreams,
                   running, errors>>

(* One step of a think call in progress on thread t *)
ThinkStep(t) ==
    \/ ThinkRecall(t)
    \/ ThinkActivate(t)
    \/ ThinkAddConcept(t)
    \/ ThinkConnect(t)
    \/ ThinkChat(t)
    \/ ThinkConversation(t)
    \/ ThinkRememberUser(t)
    \/ ThinkRememberResponse(t)
    \/ ThinkSpark(t)
    \/ ThinkSave(t)
    \/ ThinkReturn(t)

----------------------------------------------------------------------------
(* Subconscious.reset *)

(* Mutant: reset clears the episodic table as well *)
MutReset ==
    /\ pc["fg"] = "idle"
    /\ conversation' = <<>>
    /\ working' = <<>>
    /\ pushed' = <<>>
    /\ episodic' = {}
    /\ ret' = [Returned(Frame0, FALSE) EXCEPT !.op = "reset"]
    /\ steps' = steps + 1
    /\ UNCHANGED <<capacity, semantic, procedural, nextId, evicted, nodes, edges,
                   adapter, saved, dreams, running, errors, pc, frame>>

(* self._conversation.clear(); self.memory.working.clear() *)
Reset ==
    /\ pc["fg"] = "idle"
    /\ conversation' = <<>>
    /\ working' = <<>>
    /\ pushed' = <<>>
    /\ ret' = [Returned(Frame0, FALSE) EXCEPT !.op = "reset"]
    /\ steps' = steps + 1
    /\ UNCHANGED <<capacity, episodic, semantic, procedural, nextId, evicted, nodes,
                   edges, adapter, saved, dreams, running, errors, pc, frame>>

----------------------------------------------------------------------------
(* Subconscious.learn *)

(* learn(content, importance): extract the concepts, remember the content   *)
(* as SEMANTIC with source "learn"                                          *)
LearnCall(t, content, importance) ==
    /\ pc[t] = "idle"
    /\ SetMemory(RememberIn(Memory, content, SEMANTIC, importance, "learn"))
    /\ Goto(t, "learn_add")
    /\ SetFrame(t, Logged([Frame0 EXCEPT !.call = "learn", !.message = content,
                                         !.concepts = ExtractConcepts(content),
                                         !.recalled = importance],
                          "remember"))
    /\ steps' = steps + 1
    /\ UNCHANGED <<nodes, edges, ret, adapter, conversation, saved, dreams, running,
                   errors>>

(* for concept in concepts:                                                 *)
(*     graph.add_concept(concept, domain, importance = importance * 0.8)    *)
LearnAddConcept(t) ==
    LET f == frame[t]
    IN  /\ pc[t] = "learn_add"
        /\ IF f.i > Len(f.concepts)
             THEN /\ Goto(t, "learn_connect")
                  /\ SetFrame(t, [f EXCEPT !.i = 1])
                  /\ UNCHANGED nodes
             ELSE IF f.inop = "none"
               THEN /\ SetFrame(t, [f EXCEPT !.inop = "add_concept"])
                    /\ UNCHANGED <<pc, nodes>>
               ELSE /\ nodes' = AddConceptTo(nodes, f.concepts[f.i], "",
                                             (f.recalled * 8) \div 10)
                    /\ SetFrame(t, Logged([f EXCEPT !.inop = "none", !.i = @ + 1],
                                          "add_concept"))
                    /\ UNCHANGED pc
        /\ UNCHANGED <<memVars, edges, steps, ret, adapter, conversation, saved, dreams,
                       running, errors>>

(* if len(concepts) > 1: graph.connect_cooccurrence(concepts, weight = 0.4) *)
LearnConnect(t) ==
    LET f == frame[t]
    IN  /\ pc[t] = "learn_connect"
        /\ IF Len(f.concepts) <= 1
             THEN /\ Goto(t, "learn_save")
                  /\ UNCHANGED <<frame, nodes, edges>>
             ELSE IF f.inop = "none"
               THEN /\ SetFrame(t, [f EXCEPT !.inop = "connect"])
                    /\ UNCHANGED <<pc, nodes, edges>>
               ELSE LET g == CooccurrenceFrom(Graph, f.concepts, 1, 2, LEARN_WEIGHT)
                    IN  /\ nodes' = g.nodes
                        /\ edges' = g.edges
                        /\ SetFrame(t, Logged([f EXCEPT !.inop = "none"],
                                              "connect_cooccurrence"))
                        /\ Goto(t, "learn_save")
        /\ UNCHANGED <<memVars, steps, ret, adapter, conversation, saved, dreams,
                       running, errors>>

(* graph.save(); return record *)
LearnSave(t) ==
    LET f == frame[t]
    IN  /\ pc[t] = "learn_save"
        /\ IF f.inop = "none"
             THEN /\ SetFrame(t, [f EXCEPT !.inop = "save"])
                  /\ UNCHANGED <<pc, saved, ret>>
             ELSE /\ saved' = NodeLinkData(Graph)
                  /\ ret' = Returned(Logged(f, "save"), FALSE)
                  /\ SetFrame(t, Frame0)
                  /\ Goto(t, "idle")
        /\ UNCHANGED <<memVars, nodes, edges, steps, adapter, conversation, dreams,
                       running, errors>>

LearnStep(t) == LearnAddConcept(t) \/ LearnConnect(t) \/ LearnSave(t)

----------------------------------------------------------------------------
(* CreativeEngine: spark, bisociate, blend, analogize, lateral_jump *)

Methods == {"spark", "bisociate", "blend", "analogize", "lateral_jump"}

(* The number of sparks a call of the method builds, one idea each *)
SparkCount(method, n) == IF method = "spark" THEN n ELSE 1

(* One call of a method of the engine: every spark it builds takes its idea *)
(* from adapter.generate when an adapter is configured, and from the        *)
(* placeholder text otherwise                                               *)
CreativeCall(t, method, n) ==
    /\ pc[t] = "idle"
    /\ \E outcome \in (IF adapter = "present" /\ SparkCount(method, n) > 0
                         THEN Outcomes ELSE {"ok"}) :
          ret' = [Returned([Frame0 EXCEPT !.call = method,
                                          !.failed = (outcome = "raise"),
                                          !.sparks = IF outcome = "ok"
                                                       THEN Sparks(SparkCount(method, n))
                                                       ELSE <<>>],
                           outcome = "raise")
                    EXCEPT !.recalled = n]
    /\ steps' = steps + 1
    /\ UNCHANGED <<memVars, nodes, edges, mindVars>>

----------------------------------------------------------------------------
(* CognitiveGraph.random_walk *)

(* The nodes one step of the walk can move to: along an outgoing or an      *)
(* incoming edge of the current node, or, from a node without edges, to any *)
(* node of the graph                                                        *)
WalkMoves(g, current) ==
    LET along == {e.target : e \in {x \in Range(g.edges) : x.source = current}}
                   \cup {e.source : e \in {x \in Range(g.edges) : x.target = current}}
    IN  IF along = {} THEN DOMAIN g.nodes ELSE along

(* The paths of k further steps from the current node *)
RECURSIVE WalksFrom(_, _, _)
WalksFrom(g, current, k) ==
    IF k = 0 THEN {<<current>>}
    ELSE UNION {{<<current>> \o w : w \in WalksFrom(g, next, k - 1)} :
                  next \in WalkMoves(g, current)}

(* random_walk(steps = k, prefer_distant = True) without a start: every     *)
(* path the random choices can produce                                      *)
RandomWalks(g, k) ==
    IF DOMAIN g.nodes = {} THEN {<<>>}
    ELSE UNION {WalksFrom(g, start, k) : start \in DOMAIN g.nodes}

(* The edges random_walk lists for the current node: the outgoing ones,    *)
(* then the incoming ones turned round, each with the node it leads to      *)
WalkEdges(g, current) ==
    LET out == SelectSeq(g.edges, LAMBDA e : e.source = current)
        inc == SelectSeq(g.edges, LAMBDA e : e.target = current)
    IN  [i \in 1..Len(out) |-> [next |-> out[i].target, weight |-> out[i].weight]]
          \o [i \in 1..Len(inc) |-> [next |-> inc[i].source, weight |-> inc[i].weight]]

(* The weight the walk gives an edge, in hundredths: 1.0 / max(weight,      *)
(* 0.01) when prefer_distant, the edge's weight otherwise                   *)
WalkWeight(weight, prefer_distant) ==
    IF prefer_distant THEN 10000 \div Max(weight, 1) ELSE weight

RECURSIVE WalkTotal(_, _, _)
WalkTotal(es, i, prefer_distant) ==
    IF i > Len(es) THEN 0
    ELSE WalkWeight(es[i].weight, prefer_distant) + WalkTotal(es, i + 1, prefer_distant)

(* Mutant: a step may jump to any node whatever the edges of the current    *)
(* node                                                                     *)
MutStepMoves(g, current, prefer_distant) == DOMAIN g.nodes

(* The nodes one iteration of the loop can append: any node when the        *)
(* current node has no edge or the weights sum to zero, and otherwise the   *)
(* far end of an edge that random.choices can draw (probability             *)
(* weight / total above zero)                                               *)
StepMoves(g, current, prefer_distant) ==
    LET es    == WalkEdges(g, current)
        total == WalkTotal(es, 1, prefer_distant)
    IN  IF es = <<>> \/ total = 0 THEN DOMAIN g.nodes
        ELSE {es[i].next : i \in {j \in 1..Len(es) :
                                    WalkWeight(es[j].weight, prefer_distant) * total > 0}}

RECURSIVE PathsFrom(_, _, _, _)
PathsFrom(g, current, k, prefer_distant) ==
    IF k <= 0 THEN {<<current>>}
    ELSE UNION {{<<current>> \o w : w \in PathsFrom(g, next, k - 1, prefer_distant)} :
                  next \in StepMoves(g, current, prefer_distant)}

(* random_walk(start, steps, prefer_distant): every path it can return; "" *)
(* stands for a start that is None or empty                                 *)
RandomWalkPaths(g, start, k, prefer_distant) ==
    IF DOMAIN g.nodes = {} THEN {<<>>}
    ELSE LET firsts == IF start # "" /\ HasNode(g.nodes, Norm(start))
                         THEN {Norm(start)} ELSE DOMAIN g.nodes
         IN  UNION {PathsFrom(g, first, k, prefer_distant) : first \in firsts}

(* CognitiveGraph.random_walk *)
RandomWalk(start, k, prefer_distant) ==
    /\ \E path \in RandomWalkPaths(Graph, start, k, prefer_distant) :
          ret' = [op |-> "random_walk", start |-> start, steps |-> k,
                  prefer_distant |-> prefer_distant, path |-> path, raised |-> FALSE,
                  before |-> Graph]
    /\ steps' = steps + 1
    /\ UNCHANGED <<memVars, nodes, edges, mindVars>>

----------------------------------------------------------------------------
(* DreamProcessor.dream_once *)

(* Mutant: the graph is saved after the discovery *)
MutSaveLate(label) ==
    CASE label = "dream_consolidate" -> "dream_decay"
      [] label = "dream_decay"       -> "dream_prune"
      [] label = "dream_prune"       -> "dream_discover"
      [] label = "dream_discover"    -> "dream_save"
      [] label = "dream_save"        -> "dream_hypothesize"
      [] label = "dream_hypothesize" -> "dream_clusters"
      [] label = "dream_clusters"    -> "dream_report"

(* Mutant: the cycle saves the graph before it decays the activations *)
MutDreamNext(label) ==
    CASE label = "dream_consolidate" -> "dream_save"
      [] label = "dream_save"        -> "dream_decay"
      [] label = "dream_decay"       -> "dream_prune"
      [] label = "dream_prune"       -> "dream_discover"
      [] label = "dream_discover"    -> "dream_hypothesize"
      [] label = "dream_hypothesize" -> "dream_clusters"
      [] label = "dream_clusters"    -> "dream_report"

(* The statements of dream_once, in program order *)
DreamNext(label) ==
    CASE label = "dream_consolidate" -> "dream_decay"
      [] label = "dream_decay"       -> "dream_save"
      [] label = "dream_save"        -> "dream_prune"
      [] label = "dream_prune"       -> "dream_discover"
      [] label = "dream_discover"    -> "dream_hypothesize"
      [] label = "dream_hypothesize" -> "dream_clusters"
      [] label = "dream_clusters"    -> "dream_report"

(* Mutant: recall_recent returns the whole table *)
MutRecallRecent(store, limit) == store

(* episodic.recall_recent(limit): the records with the latest timestamps;   *)
(* records are stamped in the order they are constructed                    *)
RecallRecent(store, limit) ==
    {r \in store : Cardinality({q \in store : q.memory_id > r.memory_id}) < limit}

(* Mutant: prune keeps the newest rows whatever their importance *)
MutPrune(store, keep) ==
    IF Cardinality(store) <= keep THEN store
    ELSE {r \in store : Cardinality({q \in store : q.memory_id > r.memory_id}) < keep}

(* episodic.prune(keep): the rows that stay, the first `keep` in            *)
(* (importance DESC, timestamp DESC) order                                  *)
Prune(store, keep) ==
    IF Cardinality(store) <= keep THEN store
    ELSE {r \in store :
            Cardinality({q \in store :
                           \/ q.importance > r.importance
                           \/ q.importance = r.importance /\ q.memory_id > r.memory_id})
              < keep}

(* EpisodicMemory.prune, called directly *)
EpisodicPrune(keep) ==
    LET kept == Prune(episodic, keep)
    IN  /\ episodic' = kept
        /\ ret' = [op |-> "prune", keep |-> keep, before |-> episodic,
                   pruned |-> Cardinality(episodic) - Cardinality(kept)]
        /\ steps' = steps + 1
        /\ UNCHANGED <<capacity, working, semantic, procedural, nextId, pushed, evicted,
                       nodes, edges>>
        /\ UNCHANGED mindVars

(* mind.dream(): dream_once on the caller's thread *)
DreamCall(t) ==
    /\ pc[t] = "idle"
    /\ Goto(t, "dream_consolidate")
    /\ SetFrame(t, [Frame0 EXCEPT !.call = "dream", !.mark = Len(dreams)])
    /\ steps' = steps + 1
    /\ UNCHANGED <<memVars, nodes, edges, ret, adapter, conversation, saved, dreams,
                   running, errors>>

(* report.memories_consolidated = self._consolidate() *)
DreamConsolidate(t) ==
    LET f         == frame[t]
        important == {r \in RecallRecent(episodic, RECENT_LIMIT) : r.importance >= IMPORTANT}
    IN  /\ pc[t] = "dream_consolidate"
        /\ semantic' = {r \in semantic : \A q \in important : q.memory_id # r.memory_id}
                         \cup important
        /\ Goto(t, DreamNext("dream_consolidate"))
        /\ SetFrame(t, Logged([f EXCEPT !.report.memories_consolidated =
                                            Cardinality(important)],
                              "consolidate"))
        /\ UNCHANGED <<capacity, working, episodic, procedural, nextId, pushed, evicted,
                       nodes, edges, steps, ret, adapter, conversation, saved, dreams,
                       running, errors>>

(* self.graph.decay_all() *)
DreamDecay(t) ==
    LET f == frame[t]
    IN  /\ pc[t] = "dream_decay"
        /\ IF f.inop = "none"
             THEN /\ SetFrame(t, [f EXCEPT !.inop = "decay_all"])
                  /\ UNCHANGED <<pc, nodes>>
             ELSE /\ nodes' = [n \in DOMAIN nodes |->
                                 [nodes[n] EXCEPT !.activation =
                                     Decayed(@, EffectiveRate([given |-> FALSE, value |-> 0]))]]
                  /\ SetFrame(t, Logged([f EXCEPT !.inop = "none"], "decay_all"))
                  /\ Goto(t, DreamNext("dream_decay"))
        /\ UNCHANGED <<memVars, edges, steps, ret, adapter, conversation, saved, dreams,
                       running, errors>>

(* self.graph.save() *)
DreamSave(t) ==
    LET f == frame[t]
    IN  /\ pc[t] = "dream_save"
        /\ IF f.inop = "none"
             THEN /\ SetFrame(t, [f EXCEPT !.inop = "save"])
                  /\ UNCHANGED <<pc, saved>>
             ELSE /\ saved' = NodeLinkData(Graph)
                  /\ SetFrame(t, Logged([f EXCEPT !.inop = "none"], "save"))
                  /\ Goto(t, DreamNext("dream_save"))
        /\ UNCHANGED <<memVars, nodes, edges, steps, ret, adapter, conversation, dreams,
                       running, errors>>

(* report.memories_pruned = self._forget() *)
DreamPrune(t) ==
    LET f    == frame[t]
        kept == Prune(episodic, PRUNE_KEEP)
    IN  /\ pc[t] = "dream_prune"
        /\ episodic' = kept
        /\ Goto(t, DreamNext("dream_prune"))
        /\ SetFrame(t, Logged([f EXCEPT !.i = 1, !.report.memories_pruned =
                                            Cardinality(episodic) - Cardinality(kept)],
                              "prune"))
        /\ UNCHANGED <<capacity, working, semantic, procedural, nextId, pushed, evicted,
                       nodes, edges, steps, ret, adapter, conversation, saved, dreams,
                       running, errors>>

(* Mutant: the ends of a walk are connected whether they differ or not *)
MutEndsDiffer(path) == Len(path) >= 2

(* if len(path) >= 2: start, end = path[0], path[-1]; if start != end *)
EndsDiffer(path) == Len(path) >= 2 /\ path[1] # path[Len(path)]

(* report.new_connections = self._discover_connections(): three times, a    *)
(* random walk of four steps, and a connect of its two ends when they       *)
(* differ                                                                   *)
DreamDiscover(t) ==
    LET f == frame[t]
    IN  /\ pc[t] = "dream_discover"
        /\ IF f.i > WALKS
             THEN /\ Goto(t, DreamNext("dream_discover"))
                  /\ SetFrame(t, [f EXCEPT !.i = 1, !.walk = <<>>])
                  /\ UNCHANGED <<nodes, edges>>
             ELSE IF f.inop = "none"
               THEN \E path \in RandomWalks(Graph, WALK_STEPS) :
                      /\ IF EndsDiffer(path)
                           THEN SetFrame(t, Logged([f EXCEPT !.inop = "connect",
                                                       !.walk = <<path[1], path[Len(path)]>>],
                                                   "random_walk"))
                           ELSE SetFrame(t, Logged([f EXCEPT !.i = @ + 1], "random_walk"))
                      /\ UNCHANGED <<pc, nodes, edges>>
               ELSE LET g == ConnectIn(Graph, f.walk[1], f.walk[2], "semantic",
                                       DISCOVERY_WEIGHT, DISCOVERY_CONFIDENCE)
                    IN  /\ nodes' = g.nodes
                        /\ edges' = g.edges
                        /\ SetFrame(t, Logged([f EXCEPT !.inop = "none", !.i = @ + 1,
                                                  !.walk = <<>>,
                                                  !.report.new_connections = @ + 1],
                                              "connect"))
                        /\ UNCHANGED pc
        /\ UNCHANGED <<memVars, steps, ret, adapter, conversation, saved, dreams,
                       running, errors>>

(* if self.creative: sparks = self.creative.spark(n = 2) *)
DreamHypothesize(t) ==
    LET f == frame[t]
    IN  /\ pc[t] = "dream_hypothesize"
        /\ \E outcome \in (IF adapter = "present" THEN Outcomes ELSE {"ok"}) :
              IF outcome = "ok"
                THEN /\ Goto(t, DreamNext("dream_hypothesize"))
                     /\ SetFrame(t, Logged([f EXCEPT !.report.hypotheses_generated =
                                                         Sparks(DREAM_SPARKS)],
                                           "hypothesize"))
                     /\ UNCHANGED ret
                ELSE Raise(t, Logged([f EXCEPT !.failed = TRUE], "hypothesize"))
        /\ UNCHANGED <<memVars, nodes, edges, steps, adapter, conversation, saved,
                       dreams, running, errors>>

(* clusters = self.graph.find_clusters() *)
DreamClusters(t) ==
    /\ pc[t] = "dream_clusters"
    /\ Goto(t, DreamNext("dream_clusters"))
    /\ SetFrame(t, Logged(frame[t], "clusters"))
    /\ UNCHANGED <<memVars, nodes, edges, steps, ret, adapter, conversation, saved,
                   dreams, running, errors>>

(* self._dreams.append(report); return report *)
DreamReport(t) ==
    LET f == Logged(frame[t], "report")
    IN  /\ pc[t] = "dream_report"
        /\ dreams' = Append(dreams, f.report)
        /\ IF f.call = "loop"
             THEN /\ Goto(t, "loop_sleep")
                  /\ SetFrame(t, f)
                  /\ UNCHANGED ret
             ELSE /\ Goto(t, "idle")
                  /\ SetFrame(t, Frame0)
                  /\ ret' = Returned(f, FALSE)
        /\ UNCHANGED <<memVars, nodes, edges, steps, adapter, conversation, saved,
                       running, errors>>

DreamStep(t) ==
    \/ DreamConsolidate(t)
    \/ DreamDecay(t)
    \/ DreamSave(t)
    \/ DreamPrune(t)
    \/ DreamDiscover(t)
    \/ DreamHypothesize(t)
    \/ DreamClusters(t)
    \/ DreamReport(t)

----------------------------------------------------------------------------
(* DreamProcessor.start, stop and _loop *)

(* Mutant: an error in a cycle ends the loop *)
MutAfterError == "exited"

(* Where the worker goes after the except clause has logged the error *)
AfterError == "loop_sleep"

(* start(): no-op while running; otherwise set the flag and start a thread  *)
(* on _loop                                                                 *)
Start(w) ==
    /\ pc["fg"] = "idle"
    /\ IF running
         THEN UNCHANGED <<running, pc, frame>>
         ELSE /\ pc[w] = "off"
              /\ running' = TRUE
              /\ Goto(w, "loop_top")
              /\ SetFrame(w, Frame0)
    /\ ret' = [Returned(Frame0, FALSE) EXCEPT !.op = "start"]
    /\ UNCHANGED <<memVars, nodes, edges, steps, adapter, conversation, saved, dreams,
                   errors>>

(* stop(): clear the flag (the join waits at most five seconds) *)
Stop ==
    /\ pc["fg"] = "idle"
    /\ running' = FALSE
    /\ ret' = [Returned(Frame0, FALSE) EXCEPT !.op = "stop"]
    /\ UNCHANGED <<memVars, nodes, edges, steps, adapter, conversation, saved, dreams,
                   errors, pc, frame>>

(* Mutant: the loop does not look at the flag *)
MutLoopTop(w) ==
    /\ pc[w] = "loop_top"
    /\ Goto(w, "dream_consolidate")
    /\ SetFrame(w, [Frame0 EXCEPT !.call = "loop", !.mark = Len(dreams)])
    /\ steps' = steps + 1
    /\ UNCHANGED <<memVars, nodes, edges, ret, adapter, conversation, saved, dreams,
                   running, errors>>

(* while self._running: try: self.dream_once() *)
LoopTop(w) ==
    /\ pc[w] = "loop_top"
    /\ IF running
         THEN /\ Goto(w, "dream_consolidate")
              /\ SetFrame(w, [Frame0 EXCEPT !.call = "loop", !.mark = Len(dreams)])
              /\ steps' = steps + 1
         ELSE /\ Goto(w, "exited")
              /\ SetFrame(w, Frame0)
              /\ UNCHANGED steps
    /\ UNCHANGED <<memVars, nodes, edges, ret, adapter, conversation, saved, dreams,
                   running, errors>>

(* except Exception as e: logger.error(...) *)
LoopExcept(w) ==
    /\ pc[w] = "loop_except"
    /\ errors' = errors + 1
    /\ Goto(w, AfterError)
    /\ UNCHANGED <<memVars, nodes, edges, steps, ret, adapter, conversation, saved,
                   dreams, running, frame>>

(* time.sleep(self._interval) returns *)
LoopSleep(w) ==
    /\ pc[w] = "loop_sleep"
    /\ Goto(w, "loop_top")
    /\ UNCHANGED <<memVars, nodes, edges, steps, ret, adapter, conversation, saved,
                   dreams, running, errors, frame>>

(* Subconscious.__init__: no conversation, no dream loop *)
InitMind ==
    /\ conversation = <<>>
    /\ saved = NoFile
    /\ dreams = <<>>
    /\ running = FALSE
    /\ errors = 0
    /\ pc = [t \in Threads |-> IF t \in Callers THEN "idle" ELSE "off"]
    /\ frame = [t \in Threads |-> Frame0]

----------------------------------------------------------------------------
(* The working memory alone: push and clear *)

Items == {[content |-> c, role |-> "user", memory_id |-> 0] : c \in {"t1", "t2", "t3", "t4"}}

NoOp == [op |-> "init"]

InitWM ==
    /\ capacity \in 1..MaxCapacity
    /\ working = <<>>
    /\ episodic = {} /\ semantic = {} /\ procedural = {}
    /\ nextId = 0
    /\ pushed = <<>> /\ evicted = <<>>
    /\ nodes = NoNodes /\ edges = <<>>
    /\ steps = 0
    /\ ret = NoOp
    /\ adapter = "none"
    /\ InitMind

PushAny == steps < MaxOps /\ \E item \in Items : Push(item)

ClearAny == steps < MaxOps /\ Clear

NextWM == PushAny \/ ClearAny

SpecWM == InitWM /\ [][NextWM]_vars

(* The memory manager: remember, and the reset of working memory *)

RememberAny ==
    /\ steps < MaxOps
    /\ \E u \in Utterances, memory_type \in MemoryType, importance \in Importances :
        Remember(u.content, memory_type, importance, u.source)

NextMem == RememberAny \/ ClearAny

SpecMem == InitWM /\ [][NextMem]_vars

(* The graph's edges: connect, connect_cooccurrence, add_concept and        *)
(* remove_concept from the empty graph                                      *)

InitGraph ==
    /\ capacity = MaxCapacity
    /\ working = <<>>
    /\ episodic = {} /\ semantic = {} /\ procedural = {}
    /\ nextId = 0
    /\ pushed = <<>> /\ evicted = <<>>
    /\ nodes = NoNodes /\ edges = <<>>
    /\ steps = 0
    /\ ret = NoOp
    /\ adapter = "none"
    /\ InitMind

ConnectEdge ==
    /\ steps < MaxEdgeOps
    /\ \E source \in {"a", " A ", "b"}, target \in {"a", "b"},
          edge_type \in {"semantic", "cooccurrence"} :
           Connect(source, target, edge_type, 50, 100)

CooccurrenceEdges ==
    steps < MaxEdgeOps /\ ConnectCooccurrence(<<"a", " A ", "b">>, 30)

AddConceptEdges ==
    steps < MaxEdgeOps /\ \E name \in {"a", "B"} : AddConcept(name, "", 80)

RemoveConceptAny ==
    steps < MaxEdgeOps /\ \E name \in {"a", "B"} : RemoveConcept(name)

NextEdges == ConnectEdge \/ CooccurrenceEdges \/ AddConceptEdges \/ RemoveConceptAny

SpecEdges == InitGraph /\ [][NextEdges]_vars

(* The weights of the edges: connect and connect_cooccurrence with weight   *)
(* arguments inside and outside [0, 1]                                      *)

Weights == {-10, 50, 98, 150}

ConnectWeight ==
    /\ steps < MaxWeightOps
    /\ \E source \in {"a", "b"}, weight \in Weights :
           Connect(source, "b", "semantic", weight, 100)

CooccurrenceWeight ==
    /\ steps < MaxWeightOps
    /\ \E weight \in {30, 150} : ConnectCooccurrence(<<"a", "b">>, weight)

NextWeights == ConnectWeight \/ CooccurrenceWeight

SpecWeights == InitGraph /\ [][NextWeights]_vars

(* Activation: add_concept, connect, activate and decay_all *)

Strengths == {-500000, 800000, 1000000}
Rates == {[given |-> FALSE, value |-> 0], [given |-> TRUE, value |-> 0],
          [given |-> TRUE, value |-> 300000], [given |-> TRUE, value |-> -500000]}

ActivateAny ==
    /\ steps < MaxActOps
    /\ \E name \in {"a", "B"}, strength \in Strengths, depth \in {0, 2} :
           Activate(name, strength, depth)

DecayAny == steps < MaxActOps /\ \E rate \in Rates : DecayAll(rate)

ConnectAB ==
    /\ steps < MaxActOps
    /\ \E source \in {"a", "b"}, target \in {"a", "b"} :
           Connect(source, target, "semantic", 80, 100)

AddConceptAct ==
    steps < MaxActOps /\ \E name \in {"a", "B"} : AddConcept(name, "", 80)

NextAct == AddConceptAct \/ ConnectAB \/ ActivateAny \/ DecayAny

SpecAct == InitGraph /\ [][NextAct]_vars

(* Spreading activation over three concepts: connect with the weights 0.8   *)
(* and 0.5, activate with depth 1 and 2, decay_all with the default rate    *)

ConnectXYZ ==
    /\ steps < MaxSpreadOps
    /\ \E pair \in {<<"x", "y">>, <<"y", "z">>, <<"z", "x">>}, weight \in {80, 50} :
           Connect(pair[1], pair[2], "semantic", weight, 100)

ActivateXYZ ==
    /\ steps < MaxSpreadOps
    /\ \E name \in {"x", "y"}, strength \in {1000000, 30000}, depth \in {1, 2} :
           Activate(name, strength, depth)

DecayXYZ == steps < MaxSpreadOps /\ DecayAll([given |-> FALSE, value |-> 0])

NextSpread == ConnectXYZ \/ ActivateXYZ \/ DecayXYZ

SpecSpread == InitGraph /\ [][NextSpread]_vars

(* The orchestrator on one thread: think and learn, with and without a      *)
(* provider                                                                 *)

InitOrchestrator ==
    /\ capacity = MaxCapacity
    /\ working = <<>>
    /\ episodic = {} /\ semantic = {} /\ procedural = {}
    /\ nextId = 0
    /\ pushed = <<>> /\ evicted = <<>>
    /\ nodes = NoNodes /\ edges = <<>>
    /\ steps = 0
    /\ ret = NoOp
    /\ adapter \in {"none", "present"}
    /\ InitMind

(* remember, recall and recall_flat called directly *)

RememberRecall ==
    /\ steps < MaxRecallOps
    /\ \E content \in {"t1", "t2"}, importance \in Importances :
          Remember(content, EPISODIC, importance, "user")

RecallAny == steps < MaxRecallOps /\ \E query \in {"t1", "t3"} : Recall(query)

RecallFlatAny == steps < MaxRecallOps /\ \E query \in {"t1", "t3"} : RecallFlat(query)

NextRecall == RememberRecall \/ RecallAny \/ RecallFlatAny

SpecRecall == InitWM /\ [][NextRecall]_vars

ThinkAny ==
    steps < MaxThinkOps /\ \E message \in {"m_xy", "m_z"} : ThinkCall("fg", message)

LearnAny == steps < MaxThinkOps /\ LearnCall("fg", "m_yz", LEARN_IMPORTANCE)

NextThink == ThinkAny \/ LearnAny \/ ThinkStep("fg") \/ LearnStep("fg")

SpecThink == InitOrchestrator /\ [][NextThink]_vars

(* The creative engine called directly, on the graph learn has built *)

CreativeAny ==
    /\ steps < MaxCreativeOps
    /\ \E method \in Methods, n \in 0..2 : CreativeCall("fg", method, n)

LearnCreative ==
    /\ steps < MaxCreativeOps
    /\ \E content \in {"m_xy", "m_yz"} : LearnCall("fg", content, LEARN_IMPORTANCE)

NextCreative == CreativeAny \/ LearnCreative \/ LearnStep("fg")

SpecCreative == InitOrchestrator /\ [][NextCreative]_vars

(* Dream cycles run by hand (mind.dream) on what learn and remember have    *)
(* stored                                                                   *)

DreamAny == steps < MaxDreamOps /\ DreamCall("fg")

LearnDream ==
    /\ steps < MaxDreamOps
    /\ \E content \in {"m_x", "m_z"} : LearnCall("fg", content, LEARN_IMPORTANCE)

RememberDream ==
    /\ steps < MaxDreamOps
    /\ pc["fg"] = "idle"
    /\ \E importance \in Importances : Remember("t1", EPISODIC, importance, "user")

NextDream ==
    DreamAny \/ LearnDream \/ RememberDream \/ DreamStep("fg") \/ LearnStep("fg")

SpecDream == InitOrchestrator /\ [][NextDream]_vars

(* One learn, then thinks and one dream cycle run by hand on one thread,    *)
(* without a provider: the graph in memory and the saved file               *)

InitDocument ==
    /\ InitOrchestrator
    /\ adapter = "none"

ThinkDocument == Len(conversation) < 2 * MaxDocumentThinks /\ ThinkCall("fg", "m_xy")

LearnDocument == ret = NoOp /\ LearnCall("fg", "m_xyz", LEARN_IMPORTANCE)

DreamDocument == dreams = <<>> /\ DreamCall("fg")

NextDocument ==
    \/ ThinkDocument \/ LearnDocument \/ DreamDocument
    \/ ThinkStep("fg") \/ LearnStep("fg") \/ DreamStep("fg")

SpecDocument == InitDocument /\ [][NextDocument]_vars

(* remember, think, learn and dream cycles on one thread, without a         *)
(* provider, on a working memory of any capacity                            *)

InitAlone ==
    /\ capacity \in 1..MaxCapacity
    /\ working = <<>>
    /\ episodic = {} /\ semantic = {} /\ procedural = {}
    /\ nextId = 0
    /\ pushed = <<>> /\ evicted = <<>>
    /\ nodes = NoNodes /\ edges = <<>>
    /\ steps = 0
    /\ ret = NoOp
    /\ adapter = "none"
    /\ InitMind

RememberAlone ==
    /\ steps < MaxAloneOps
    /\ pc["fg"] = "idle"
    /\ \E importance \in {59, 60}, memory_type \in {EPISODIC, WORKING} :
          Remember("t1", memory_type, importance, "user")

ThinkAlone == steps < MaxAloneOps /\ ThinkCall("fg", "m_xy")

LearnAlone == steps < MaxAloneOps /\ LearnCall("fg", "m_x", LEARN_IMPORTANCE)

DreamAlone == steps < MaxAloneOps /\ DreamCall("fg")

NextAlone ==
    \/ RememberAlone \/ ThinkAlone \/ LearnAlone \/ DreamAlone
    \/ ThinkStep("fg") \/ LearnStep("fg") \/ DreamStep("fg")

SpecAlone == InitAlone /\ [][NextAlone]_vars

(* The background loop: start, stop and the worker's cycles, on the graph   *)
(* one learn has built, with a provider whose calls can fail                *)

InitLoop ==
    /\ InitOrchestrator
    /\ adapter = "present"

StartAny == \E w \in Workers : Start(w)

LoopBegin(w) == (running => steps < MaxCycles) /\ LoopTop(w)

LearnLoop ==
    /\ nodes = NoNodes
    /\ \A w \in Workers : pc[w] = "off"
    /\ LearnCall("fg", "m_xy", LEARN_IMPORTANCE)

WorkerStep(w) == LoopBegin(w) \/ DreamStep(w) \/ LoopExcept(w) \/ LoopSleep(w)

NextLoop ==
    \/ StartAny
    \/ Stop
    \/ LearnLoop
    \/ LearnStep("fg")
    \/ \E w \in Workers : WorkerStep(w)

SpecLoop == InitLoop /\ [][NextLoop]_vars

(* The worker threads are scheduled, and a sleep ends *)
SpecLoopFair == SpecLoop /\ \A w \in Workers : WF_vars(WorkerStep(w))

(* A think or learn on the caller's thread while one dream loop runs *)

InitConcurrent ==
    /\ InitOrchestrator
    /\ adapter = "none"

StartOne == Start("w1")

ThinkConcurrent == steps < MaxConcurrentOps /\ ThinkCall("fg", "m_xy")

LearnConcurrent == steps < MaxConcurrentOps /\ LearnCall("fg", "m_xy", LEARN_IMPORTANCE)

LoopConcurrent == (running => steps < MaxConcurrentOps) /\ LoopTop("w1")

NextConcurrent ==
    \/ StartOne
    \/ ThinkConcurrent
    \/ LearnConcurrent
    \/ LoopConcurrent
    \/ ThinkStep("fg")
    \/ LearnStep("fg")
    \/ DreamStep("w1")
    \/ LoopSleep("w1")

SpecConcurrent == InitConcurrent /\ [][NextConcurrent]_vars

(* One dream cycle on a graph preloaded with isolated nodes (add_concept on  *)
(* each name, nothing else), the episodic store empty                       *)

Seeded == {"n1", "n2", "n3", "n4"}

InitSeeded ==
    /\ capacity = MaxCapacity
    /\ working = <<>>
    /\ episodic = {} /\ semantic = {} /\ procedural = {}
    /\ nextId = 0
    /\ pushed = <<>> /\ evicted = <<>>
    /\ nodes = [n \in Seeded |-> AddConceptTo(NoNodes, n, "", DEFAULT_IMPORTANCE)[n]]
    /\ edges = <<>>
    /\ steps = 0
    /\ ret = NoOp
    /\ adapter \in {"none", "present"}
    /\ InitMind

DreamSeeded == ret = NoOp /\ DreamCall("fg")

NextSeeded == DreamSeeded \/ DreamStep("fg")

SpecSeeded == InitSeeded /\ [][NextSeeded]_vars

(* think called from two threads of the caller on one orchestrator without  *)
(* a provider, for every capacity of the working memory                     *)

InitThreads ==
    /\ capacity \in 1..MaxCapacity
    /\ working = <<>>
    /\ episodic = {} /\ semantic = {} /\ procedural = {}
    /\ nextId = 0
    /\ pushed = <<>> /\ evicted = <<>>
    /\ nodes = NoNodes /\ edges = <<>>
    /\ steps = 0
    /\ ret = NoOp
    /\ adapter = "none"
    /\ InitMind

ThinkThreads == \E t \in Callers : steps < MaxThreadOps /\ ThinkCall(t, "m_z")

NextThreads == ThinkThreads \/ \E t \in Callers : ThinkStep(t)

SpecThreads == InitThreads /\ [][NextThreads]_vars

(* Persistence: save and a fresh graph on the same path, between the       *)
(* operations that change the graph                                         *)

AddConceptPersist ==
    steps < MaxPersistOps /\ \E name \in {"a", "C"} : AddConcept(name, "", 80)

ConnectPersist ==
    /\ steps < MaxPersistOps
    /\ \E pair \in {<<"a", "b">>, <<"b", "a">>}, edge_type \in {"semantic", "cooccurrence"} :
           Connect(pair[1], pair[2], edge_type, 80, 100)

ActivatePersist == steps < MaxPersistOps /\ Activate("a", 800000, 1)

DecayPersist == steps < MaxPersistOps /\ DecayAll([given |-> FALSE, value |-> 0])

RemoveConceptPersist == steps < MaxPersistOps /\ RemoveConcept("b")

SavePersist == steps < MaxPersistOps /\ Save

ReloadPersist == steps < MaxPersistOps /\ Reload

NextPersist ==
    \/ AddConceptPersist \/ ConnectPersist \/ ActivatePersist \/ DecayPersist
    \/ RemoveConceptPersist \/ SavePersist \/ ReloadPersist

SpecPersist == InitGraph /\ [][NextPersist]_vars

(* Random walks on graphs of up to three concepts, with edges of weight 0   *)
(* and of opposite weights so that the weights of a node's edges can sum to *)
(* zero                                                                     *)

ConnectWalk ==
    /\ steps < MaxWalkOps
    /\ \E pair \in {<<"a", "b">>, <<"b", "a">>, <<"b", "c">>}, weight \in {-50, 0, 50} :
           Connect(pair[1], pair[2], "semantic", weight, 100)

AddConceptWalk == steps < MaxWalkOps /\ \E name \in {"a", "d"} : AddConcept(name, "", 50)

RandomWalkAny ==
    /\ steps < MaxWalkOps
    /\ \E start \in {"", " A ", "c", "zz"}, k \in {0, 3}, prefer_distant \in BOOLEAN :
           RandomWalk(start, k, prefer_distant)

NextWalk == ConnectWalk \/ AddConceptWalk \/ RandomWalkAny

SpecWalk == InitGraph /\ [][NextWalk]_vars

(* Consolidation on an episodic table that holds one record less than      *)
(* recall_recent(20) returns, the two oldest of them important, with the    *)
(* mirror remember made of those in the semantic collection: remember,      *)
(* semantic.clear and dream                                                 *)

Preloaded == RECENT_LIMIT - 1

PreloadedRecord(i) ==
    MemoryRecord(i, "t1", EPISODIC,
                 IF i = 1 THEN 80 ELSE IF i = 2 THEN IMPORTANT ELSE USER_IMPORTANCE, "user")

(* SemanticMemory.clear *)
SemanticClear ==
    /\ semantic' = {}
    /\ ret' = [op |-> "clear_semantic"]
    /\ steps' = steps + 1
    /\ UNCHANGED <<capacity, working, episodic, procedural, nextId, pushed, evicted,
                   nodes, edges>>
    /\ UNCHANGED mindVars

InitConsolidate ==
    /\ capacity = MaxCapacity
    /\ working = <<>>
    /\ episodic = {PreloadedRecord(i) : i \in 1..Preloaded}
    /\ semantic = {r \in {PreloadedRecord(i) : i \in 1..Preloaded} : Mirrored(r.importance)}
    /\ procedural = {}
    /\ nextId = Preloaded
    /\ pushed = <<>> /\ evicted = <<>>
    /\ nodes = NoNodes /\ edges = <<>>
    /\ steps = 0
    /\ ret = NoOp
    /\ adapter = "none"
    /\ InitMind

RememberConsolidate ==
    /\ steps < MaxConsolidateOps
    /\ pc["fg"] = "idle"
    /\ \E importance \in {30, 59, 60} : Remember("t2", EPISODIC, importance, "user")

ClearConsolidate == steps < MaxConsolidateOps /\ pc["fg"] = "idle" /\ SemanticClear

DreamConsolidateAny == steps < MaxConsolidateOps /\ DreamCall("fg")

NextConsolidate ==
    RememberConsolidate \/ ClearConsolidate \/ DreamConsolidateAny \/ DreamStep("fg")

SpecConsolidate == InitConsolidate /\ [][NextConsolidate]_vars

(* Pruning on an episodic table that holds one record less than             *)
(* prune(keep = 500) keeps, of three importances, with the mirror remember  *)
(* made of the important ones: up to three remembers, then one prune or one *)
(* dream                                                                    *)

Filled == PRUNE_KEEP - 1

FilledRecord(i) ==
    MemoryRecord(i, "t1", EPISODIC,
                 IF i % 3 = 0 THEN 80 ELSE IF i % 3 = 1 THEN USER_IMPORTANCE ELSE 30, "user")

InitPrune ==
    /\ capacity = MaxCapacity
    /\ working = <<>>
    /\ episodic = {FilledRecord(i) : i \in 1..Filled}
    /\ semantic = {r \in {FilledRecord(i) : i \in 1..Filled} : Mirrored(r.importance)}
    /\ procedural = {}
    /\ nextId = Filled
    /\ pushed = <<>> /\ evicted = <<>>
    /\ nodes = NoNodes /\ edges = <<>>
    /\ steps = 0
    /\ ret = NoOp
    /\ adapter = "none"
    /\ InitMind

RememberPrune ==
    /\ nextId < PRUNE_KEEP + 2
    /\ ret.op \notin {"prune", "dream"}
    /\ pc["fg"] = "idle"
    /\ \E importance \in {20, 80} : Remember("t2", EPISODIC, importance, "user")

PruneAny ==
    /\ ret.op \notin {"prune", "dream"}
    /\ pc["fg"] = "idle"
    /\ \E keep \in {0, 2, PRUNE_KEEP} : EpisodicPrune(keep)

DreamPruneAny == ret.op \notin {"prune", "dream"} /\ DreamCall("fg")

NextPrune == RememberPrune \/ PruneAny \/ DreamPruneAny \/ DreamStep("fg")

SpecPrune == InitPrune /\ [][NextPrune]_vars

(* Concepts: add_concept under names that differ in case and whitespace,   *)
(* with and without a domain, on nodes that connect and activate have       *)
(* touched                                                                  *)

AddConceptAny ==
    /\ steps < MaxConceptOps
    /\ \E name \in {"a", " A ", "B"}, domain \in {"", "d1", "d2"}, importance \in {30, 80} :
           AddConcept(name, domain, importance)

ConnectConcepts == steps < MaxConceptOps /\ Connect("a", "b", "semantic", 80, 100)

ActivateConcepts == steps < MaxConceptOps /\ Activate(" A ", 800000, 1)

NextConcepts == AddConceptAny \/ ConnectConcepts \/ ActivateConcepts

SpecConcepts == InitGraph /\ [][NextConcepts]_vars

(* learn on contents of zero to three concepts, between direct connects    *)
(* that put a co-occurrence edge just below the largest weight              *)

LearnAnyContent ==
    /\ steps < MaxLearnOps
    /\ \E content \in {"m_xyz", "m_yz", "m_z", "m_none"} :
           LearnCall("fg", content, LEARN_IMPORTANCE)

ConnectNearMax ==
    /\ steps < MaxLearnOps
    /\ pc["fg"] = "idle"
    /\ Connect("y", "z", "cooccurrence", 98, 100)

NextLearn == LearnAnyContent \/ ConnectNearMax \/ LearnStep("fg")

SpecLearn == InitOrchestrator /\ [][NextLearn]_vars

(* reset between thinks and dreams on the caller's thread, with the dream   *)
(* loop started and stopped (its worker does not get to run)                *)

ThinkReset == steps < MaxResetOps /\ ThinkCall("fg", "m_xy")

DreamReset == steps < MaxResetOps /\ ret.op # "dream" /\ DreamCall("fg")

StartReset == ~running /\ Start("w1")

StopReset == running /\ Stop

ResetAny == steps < MaxResetOps /\ Reset

NextReset ==
    \/ ThinkReset \/ DreamReset \/ StartReset \/ StopReset \/ ResetAny
    \/ ThinkStep("fg") \/ DreamStep("fg")

SpecReset == InitOrchestrator /\ [][NextReset]_vars








----------------------------------------------------------------------------
(* Claims about the memory manager *)

HasId(store, id) == \E r \in store : r.memory_id = id

Remembered == ret.op = "remember"

(* C1: every record remembered with importance >= 0.6 is present under its *)
(* memory_id in both the episodic store and the semantic store.            *)
C1_CrossReference ==
    (Remembered /\ ret.record.importance >= IMPORTANT)
        => (HasId(episodic, ret.record.memory_id) /\ HasId(semantic, ret.record.memory_id))

C3_SizeWithinCapacity == Len(working) <= capacity

C3_Witness ==
    /\ ret.op = "push"
    /\ ret.overflow # None
    /\ Len(working) = capacity
    /\ Len(pushed) > capacity

(* C4: working memory is a FIFO: after a push it holds exactly the last    *)
(* `capacity` items pushed since the last clear, in push order; a push     *)
(* onto a full working memory returns the oldest item it held, and a push  *)
(* onto a non-full one returns nothing and evicts nothing.                 *)
C4_Fifo ==
    ret.op = "push" =>
        LET n     == Len(pushed)
            first == IF n > capacity THEN n - capacity + 1 ELSE 1
        IN  /\ working = SubSeq(pushed, first, n)
            /\ IF n > capacity
                 THEN ret.overflow = pushed[n - capacity]
                 ELSE ret.overflow = None /\ working = pushed

(* capacity 3, pushes t1..t4: working holds [t2, t3, t4], the fourth push  *)
(* returned t1                                                             *)
C4_Witness ==
    /\ capacity = 3
    /\ ret.op = "push"
    /\ [i \in 1..Len(pushed) |-> pushed[i].content] = <<"t1", "t2", "t3", "t4">>
    /\ [i \in 1..Len(working) |-> working[i].content] = <<"t2", "t3", "t4">>
    /\ ret.overflow.content = "t1"

(* C5: every item evicted from working memory has been consolidated into   *)
(* episodic exactly once: the episodic records with source                 *)
(* 'working_overflow' are, in the order they were stored, the evicted      *)
(* items, one record each, with importance 0.4 and the item's content; a   *)
(* remember that evicts nothing adds none.                                 *)
OverflowRecords == {r \in episodic : r.source = "working_overflow"}

C5_ConsolidatedOnce ==
    /\ Cardinality(OverflowRecords) = Len(evicted)
    /\ \A r \in OverflowRecords :
          LET i == Cardinality({q \in OverflowRecords : q.memory_id <= r.memory_id})
          IN  /\ r.importance = OVERFLOW_IMPORTANCE
              /\ r.memory_type = EPISODIC
              /\ r.content = evicted[i].content
    /\ Remembered =>
          (ret.overflow # None <=>
              HasId(OverflowRecords, ret.record.memory_id + 1))

C5_Witness ==
    /\ Remembered
    /\ ret.overflow # None
    /\ Len(evicted) >= 2
    /\ evicted[1].content # evicted[2].content
    /\ Cardinality(OverflowRecords) = 2

----------------------------------------------------------------------------
(* Claims about the cognitive graph *)

EdgesOf(es, src, tgt, edge_type) ==
    {i \in 1..Len(es) :
        es[i].source = src /\ es[i].target = tgt /\ es[i].edge_type = edge_type}

(* C6: the graph holds at most one edge for each ordered (source, target,  *)
(* type) triple; a connect on a triple that already has an edge adds no    *)
(* edge and reinforces the existing one.                                   *)
C6_OneEdgePerTriple ==
    /\ \A i, j \in 1..Len(edges) :
          (/\ edges[i].source = edges[j].source
           /\ edges[i].target = edges[j].target
           /\ edges[i].edge_type = edges[j].edge_type) => i = j
    /\ (ret.op = "connect"
        /\ EdgesOf(ret.before.edges, ret.src, ret.tgt, ret.edge_type) # {})
          => /\ Len(edges) = Len(ret.before.edges)
             /\ \A i \in 1..Len(edges) :
                  IF i \in EdgesOf(edges, ret.src, ret.tgt, ret.edge_type)
                    THEN /\ edges[i].reinforced_count
                              = ret.before.edges[i].reinforced_count + 1
                         /\ edges[i].weight
                              = Min(MAX_WEIGHT, ret.before.edges[i].weight + REINFORCE_STEP)
                    ELSE edges[i] = ret.before.edges[i]

(* a connect has reinforced an edge that shares its ordered pair with an   *)
(* edge of another type                                                    *)
C6_Witness ==
    /\ ret.op = "connect"
    /\ EdgesOf(ret.before.edges, ret.src, ret.tgt, ret.edge_type) # {}
    /\ \E i, j \in 1..Len(edges) :
          /\ edges[i].source = ret.src /\ edges[i].target = ret.tgt
          /\ edges[j].source = ret.src /\ edges[j].target = ret.tgt
          /\ edges[i].edge_type = ret.edge_type
          /\ edges[j].edge_type # ret.edge_type
          /\ edges[i].reinforced_count >= 2

(* C7: k consecutive connect calls on the same (source, target, type), the *)
(* first one creating the edge with weight w0, leave exactly one edge of   *)
(* that type with weight = min(1, w0 + 0.05 * (k - 1)) and                 *)
(* reinforced_count = k, whatever weight the later calls pass.             *)
C7_ReinforcementFormula ==
    (ret.op = "connect" /\ ret.k >= 1) =>
        LET is == EdgesOf(edges, ret.src, ret.tgt, ret.edge_type)
        IN  /\ Cardinality(is) = 1
            /\ \A i \in is :
                  /\ edges[i].weight = Min(MAX_WEIGHT, ret.w0 + REINFORCE_STEP * (ret.k - 1))
                  /\ edges[i].reinforced_count = ret.k

(* C8: every edge satisfies 0 <= weight <= 1 and reinforced_count >= 1,    *)
(* for every weight argument connect and connect_cooccurrence are given.   *)
C8_WeightRange ==
    \A i \in 1..Len(edges) :
        /\ 0 <= edges[i].weight
        /\ edges[i].weight <= MAX_WEIGHT
        /\ edges[i].reinforced_count >= 1

(* C9: a connect call whose weight lies outside [0, 1] is rejected with a  *)
(* validation error, and leaves the graph (nodes, edges, weights,          *)
(* counters) unchanged.                                                    *)
C9_OutOfRangeRejected ==
    (ret.op = "connect" /\ (ret.weight < 0 \/ ret.weight > MAX_WEIGHT))
        => (ret.raised /\ Graph = ret.before)

(* C10: every concept's activation satisfies 0 <= activation <= 1, under   *)
(* any sequence of add_concept, connect, activate and decay_all with any   *)
(* strength and any rate the calls accept.                                 *)
C10_ActivationRange ==
    \A n \in DOMAIN nodes : 0 <= nodes[n].activation /\ nodes[n].activation <= ONE

(* C11: decay_all(rate) sets every node's activation to max(0, old - rate)  *)
(* for the rate that was supplied, rate = 0 included, and falls back to     *)
(* ACTIVATION_DECAY only when no rate is supplied; so for a supplied        *)
(* rate >= 0 no activation increases, none drops below 0 when it was not    *)
(* below 0, and a node with old >= rate loses exactly rate.                 *)
C11_DecaySupplied ==
    (ret.op = "decay_all" /\ (ret.rate.given => ret.rate.value >= 0)) =>
        LET rate == IF ret.rate.given THEN ret.rate.value ELSE ACTIVATION_DECAY
        IN  /\ DOMAIN nodes = DOMAIN ret.before.nodes
            /\ \A n \in DOMAIN nodes :
                  LET old == ret.before.nodes[n].activation
                  IN  /\ nodes[n].activation = Max(0, old - rate)
                      /\ old >= 0 => nodes[n].activation <= old
                      /\ old >= rate => nodes[n].activation = old - rate

(* C12: both endpoints of every edge exist as nodes: connect creates a      *)
(* missing endpoint before inserting the edge, and remove_concept removes   *)
(* every edge incident to the removed node.                                 *)
C12_EndpointsExist ==
    /\ \A i \in 1..Len(edges) :
          HasNode(nodes, edges[i].source) /\ HasNode(nodes, edges[i].target)
    /\ ret.op = "connect" =>
          /\ HasNode(nodes, ret.src) /\ HasNode(nodes, ret.tgt)
          /\ EdgesOf(edges, ret.src, ret.tgt, ret.edge_type) # {}
    /\ ret.op = "remove_concept" =>
          /\ ~HasNode(nodes, Norm(ret.name))
          /\ \A i \in 1..Len(edges) :
                edges[i].source # Norm(ret.name) /\ edges[i].target # Norm(ret.name)

(* remove_concept has removed a node together with an edge incident to it,  *)
(* and another edge remains                                                 *)
C12_Witness ==
    /\ ret.op = "remove_concept"
    /\ HasNode(ret.before.nodes, Norm(ret.name))
    /\ \E i \in 1..Len(ret.before.edges) :
          Norm(ret.name) \in {ret.before.edges[i].source, ret.before.edges[i].target}
    /\ Len(edges) >= 1
    /\ Len(edges) < Len(ret.before.edges)

ActivatedOnExisting ==
    ret.op = "activate" /\ HasNode(ret.before.nodes, Norm(ret.name))

(* The frame of a depth-0 activate: only the activation of x changes *)
OnlyActivationOf(x) ==
    /\ edges = ret.before.edges
    /\ DOMAIN nodes = DOMAIN ret.before.nodes
    /\ \A n \in DOMAIN nodes \ {x} : nodes[n] = ret.before.nodes[n]
    /\ [nodes[x] EXCEPT !.activation = 0] = [ret.before.nodes[x] EXCEPT !.activation = 0]

Incoming(n) == ret.activated[n] - ret.before.nodes[n].activation

Unclamped(n) == ret.activated[n] < ONE

ExampleGraph ==
    /\ DOMAIN ret.before.nodes = {"x", "y", "z"}
    /\ \A n \in DOMAIN ret.before.nodes : ret.before.nodes[n].activation = 0
    /\ Len(ret.before.edges) = 2
    /\ \E i, j \in 1..2 :
          /\ ret.before.edges[i].source = "x" /\ ret.before.edges[i].target = "y"
          /\ ret.before.edges[i].weight = 80
          /\ ret.before.edges[j].source = "y" /\ ret.before.edges[j].target = "z"
          /\ ret.before.edges[j].weight = 50

(* C14: activate propagates strength breadth-first: a visited node's        *)
(* activation becomes min(1, old + incoming); the seed's incoming is the    *)
(* strength, an out-neighbour's is incoming x SPREAD_FACTOR x edge.weight,  *)
(* an in-neighbour's is that value x 0.7, and only a propagated value above *)
(* 0.01 is passed on.  On x, y, z at activation 0 with edges x->y (0.8) and *)
(* y->z (0.5), activate(x, 1.0, depth 2) returns {x: 1.0, y: 0.48,          *)
(* z: 0.144}.                                                               *)
C14_Propagation ==
    ActivatedOnExisting =>
        LET seed == Norm(ret.name)
            act  == ret.activated
        IN  /\ seed \in DOMAIN act
            /\ act[seed] = Min(ONE, ret.before.nodes[seed].activation + ret.strength)
            /\ \A n \in DOMAIN nodes :
                  IF n \in DOMAIN act THEN nodes[n].activation = act[n]
                  ELSE nodes[n] = ret.before.nodes[n]
            /\ \A n \in DOMAIN act \ {seed} :
                  Unclamped(n) =>
                    /\ Incoming(n) > CUTOFF
                    /\ \E m \in DOMAIN act :
                          LET inc == IF m = seed THEN ret.strength ELSE Incoming(m)
                          IN  \/ m # seed /\ ~Unclamped(m)
                              \/ \E i \in 1..Len(edges) :
                                    \/ /\ edges[i].source = m /\ edges[i].target = n
                                       /\ Incoming(n) = Propagated(inc, edges[i].weight)
                                    \/ /\ edges[i].source = n /\ edges[i].target = m
                                       /\ Incoming(n) =
                                            (Propagated(inc, edges[i].weight)
                                                * BACK_EDGE_FACTOR) \div 100
            /\ (ExampleGraph /\ seed = "x" /\ ret.strength = ONE /\ ret.depth = 2) =>
                  act = [n \in {"x", "y", "z"} |->
                            CASE n = "x" -> 1000000
                              [] n = "y" -> 480000
                              [] n = "z" -> 144000]

(* the example: activate(x, 1.0, depth 2) on x -> y (0.8), y -> z (0.5)     *)
C14_Witness ==
    /\ ActivatedOnExisting
    /\ ExampleGraph
    /\ Norm(ret.name) = "x" /\ ret.strength = ONE /\ ret.depth = 2
    /\ DOMAIN ret.activated = {"x", "y", "z"}

----------------------------------------------------------------------------
(* Claims about the orchestrator, the creative engine and the dream loop *)

(* The position of a side effect of think in the claimed order; 0 for an    *)
(* effect the claim does not list                                           *)
ThinkPhase(event) ==
    CASE event = "recall"               -> 1
      [] event = "activate"             -> 2
      [] event = "add_concept"          -> 3
      [] event = "connect_cooccurrence" -> 4
      [] event = "llm"                  -> 5
      [] event = "store_user"           -> 6
      [] event = "store_response"       -> 7
      [] event = "sparks"               -> 8
      [] event = "save"                 -> 9
      [] OTHER                          -> 0

DreamPhase(event) ==
    CASE event = "consolidate" -> 1
      [] event = "decay_all"   -> 2
      [] event = "save"        -> 3
      [] event = "prune"       -> 4
      [] event = "random_walk" -> 5
      [] event = "connect"     -> 5
      [] event = "hypothesize" -> 6
      [] event = "clusters"    -> 7
      [] event = "report"      -> 8
      [] OTHER                 -> 0

(* The effects of the trace are in the order of their phases; only the      *)
(* phases of a loop repeat                                                  *)
Ordered(p, Phase(_), loops) ==
    \A i, j \in 1..Len(p) :
        i < j => \/ Phase(p[i]) < Phase(p[j])
                 \/ Phase(p[i]) = Phase(p[j]) /\ Phase(p[i]) \in loops

Count(p, event) == Cardinality({i \in 1..Len(p) : p[i] = event})

ThinkEffects(tr) == SelectSeq(tr, LAMBDA e : ThinkPhase(e) # 0)

(* C15: within one think call the side effects occur in this order and no   *)
(* other: memory recall, graph activation of the extracted concepts,        *)
(* adding and connecting the concepts in the graph, the LLM chat call (when *)
(* a provider is present), storing the user turn, storing the response      *)
(* turn, generating creative sparks, saving the graph.                      *)
C15_ThinkOrder ==
    /\ frame["fg"].call = "think" =>
          Ordered(ThinkEffects(frame["fg"].trace), ThinkPhase, {2, 3})
    /\ ret.op = "think" =>
          LET p == ThinkEffects(ret.trace)
              n == Len(ret.concepts)
          IN  /\ Ordered(p, ThinkPhase, {2, 3})
              /\ ~ret.raised =>
                    /\ Count(p, "recall") = 1
                    /\ Count(p, "activate") = n
                    /\ Count(p, "add_concept") = n
                    /\ Count(p, "connect_cooccurrence") = (IF n > 1 THEN 1 ELSE 0)
                    /\ Count(p, "llm") = (IF adapter = "present" THEN 1 ELSE 0)
                    /\ Count(p, "store_user") = 1
                    /\ Count(p, "store_response") = 1
                    /\ Count(p, "sparks") = (IF ret.sparks # <<>> THEN 1 ELSE 0)
                    /\ Count(p, "save") = 1
                    /\ p[Len(p)] = "save"
    /\ pc["fg"] = "think_return" => saved = NodeLinkData(Graph)

(* a think with a provider, two concepts already in the graph and sparks    *)
(* has returned                                                             *)
C15_Witness ==
    /\ ret.op = "think" /\ ~ret.raised
    /\ adapter = "present"
    /\ Len(ret.concepts) = 2
    /\ DOMAIN ret.activated # {}
    /\ ret.sparks # <<>>
    /\ Len(ThinkEffects(ret.trace)) = 11

(* The steps of a dream_once cycle run one after another in the order       *)
(* consolidate, decay_all, graph save, episodic prune, random-walk          *)
(* discovery, hypothesis generation, cluster count, report; a cycle that    *)
(* runs to its end has done each of them and appended one report            *)
DreamStepsOrdered ==
    /\ frame["fg"].call = "dream" =>
          /\ Ordered(frame["fg"].trace, DreamPhase, {5})
          /\ Len(dreams) = frame["fg"].mark
          /\ frame["fg"].inop # "none" =>
                pc["fg"] = (CASE frame["fg"].inop = "decay_all" -> "dream_decay"
                              [] frame["fg"].inop = "save"      -> "dream_save"
                              [] OTHER                          -> "dream_discover")
    /\ ret.op = "dream" =>
          LET p == ret.trace
          IN  /\ Ordered(p, DreamPhase, {5})
              /\ \A i \in 1..Len(p) : DreamPhase(p[i]) # 0
              /\ \A i \in 1..Len(p) :
                    p[i] = "connect" => i > 1 /\ p[i - 1] = "random_walk"
              /\ ret.raised => Len(dreams) = ret.mark
              /\ ~ret.raised =>
                    /\ Count(p, "consolidate") = 1
                    /\ Count(p, "decay_all") = 1
                    /\ Count(p, "save") = 1
                    /\ Count(p, "prune") = 1
                    /\ Count(p, "random_walk") = WALKS
                    /\ Count(p, "connect") = ret.report.new_connections
                    /\ Count(p, "hypothesize") = 1
                    /\ Count(p, "clusters") = 1
                    /\ Count(p, "report") = 1
                    /\ p[Len(p)] = "report"
                    /\ Len(dreams) = ret.mark + 1
                    /\ dreams[Len(dreams)] = ret.report

(* C16: within one dream_once cycle the steps run strictly in the order     *)
(* consolidate, decay_all, graph save, episodic prune, random-walk          *)
(* discovery, hypothesis generation, cluster count, each step finishing     *)
(* before the next starts, and exactly one report is produced at the end of *)
(* the cycle.                                                               *)
C16_DreamOrder ==
    /\ DreamStepsOrdered
    /\ ret.op = "dream" =>
          /\ Count(ret.trace, "report") = 1
          /\ Len(dreams) = ret.mark + 1

(* a cycle that consolidated a record and connected the ends of a walk has  *)
(* returned its report                                                      *)
C16_Witness ==
    /\ ret.op = "dream" /\ ~ret.raised
    /\ ret.report.memories_consolidated >= 1
    /\ ret.report.new_connections >= 1
    /\ Len(ret.report.hypotheses_generated) = DREAM_SPARKS
    /\ Len(dreams) = 1

(* C17: think never raises because of a provider failure: when the          *)
(* provider's chat call fails, think still returns a ThinkResult whose      *)
(* response is the deterministic summary built from recall and activation.  *)
C17_ThinkNeverRaises ==
    ret.op = "think" =>
        /\ ~ret.raised
        /\ ret.failed => ret.response = "summary"

(* C18: when the provider's generate call fails, the creative engine        *)
(* (spark, bisociate, blend, analogize, lateral_jump) does not raise: it    *)
(* returns sparks carrying the placeholder idea text, as it does when no    *)
(* provider is configured.                                                  *)
C18_CreativeNeverRaises ==
    ret.op \in Methods =>
        /\ ~ret.raised
        /\ ret.failed =>
              /\ Len(ret.sparks) = SparkCount(ret.op, ret.recalled)
              /\ \A i \in 1..Len(ret.sparks) : ret.sparks[i] = "placeholder"

(* C19: a dream cycle that fails inside the background loop never           *)
(* terminates the loop: the error is recorded and, as long as stop has not  *)
(* been requested, a further dream cycle is eventually started after the    *)
(* interval (within the number of cycles the model runs).                   *)
C19_LoopContinues ==
    \A w \in Workers :
        (pc[w] = "loop_except") ~>
            (/\ errors >= 1
             /\ \/ pc[w] = "dream_consolidate"
                \/ ~running
                \/ steps >= MaxCycles)

(* a worker has begun a cycle after a cycle of its own failed *)
C19_Witness ==
    \E w \in Workers :
        /\ pc[w] = "dream_consolidate"
        /\ errors >= 1
        /\ running
        /\ pc[CHOOSE v \in Workers : v # w] = "off"

(* C20: graph mutations are mutually exclusive: while a foreground think or *)
(* learn and a background dream cycle run concurrently, no two of           *)
(* add_concept, connect, activate, decay_all and save are in progress on    *)
(* the shared graph at the same time.                                       *)
C20_MutualExclusion ==
    \A t, u \in Threads :
        (t # u /\ frame[t].inop # "none") => frame[u].inop = "none"

(* C21: no interleaving of a foreground think or learn with a background    *)
(* dream cycle produces a torn or inconsistent edge or loses an update: the *)
(* graph holds one edge for each (source, target, type) triple the threads  *)
(* connected, and an activate interleaved with decay_all writes the seed's  *)
(* activation on top of the activation the seed has at that moment, so that *)
(* neither the decay nor the activation is lost.                            *)
C21_NoLostUpdate ==
    /\ \A i, j \in 1..Len(edges) :
          (/\ edges[i].source = edges[j].source
           /\ edges[i].target = edges[j].target
           /\ edges[i].edge_type = edges[j].edge_type) => i = j
    /\ \A t \in Threads :
          (frame[t].call = "think" /\ frame[t].inop = "none")
              => frame[t].old_activation = frame[t].overwritten

(* C22: when think, hence remember, is called from several threads on one   *)
(* orchestrator, the working memory never holds more items than its         *)
(* capacity and every item it evicts is consolidated into the episodic      *)
(* store exactly once: as many overflow records as evicted items, one per   *)
(* evicted item.                                                            *)
C22_SerializedWorkingMemory ==
    /\ Len(working) <= capacity
    /\ (\A t \in Callers : frame[t].overflow = Unread) =>
          /\ Cardinality(OverflowRecords) = Len(evicted)
          /\ \A c \in {evicted[i].content : i \in 1..Len(evicted)} :
                Cardinality({r \in OverflowRecords : r.content = c})
                    = Cardinality({i \in 1..Len(evicted) : evicted[i].content = c})

(* Where a worker is between two cycles or outside the loop *)
Resting == {"off", "exited", "loop_top", "loop_sleep", "loop_except"}

(* C23: stop sets the flag, which the loop observes only at the top of an   *)
(* iteration: stop leaves the position and the locals of every worker       *)
(* alone, a cycle in flight runs to its end (its report or the loop's       *)
(* error handler), no worker begins a cycle in a step taken while the flag  *)
(* is cleared, and once the flag is cleared every worker eventually is      *)
(* outside the loop unless start sets the flag again.                       *)
C23_StopObserved ==
    /\ [][(running /\ ~running') => (pc' = pc /\ frame' = frame)]_vars
    /\ [][\A w \in Workers :
            (~running /\ pc'[w] = "dream_consolidate") => pc[w] = "dream_consolidate"]_vars
    /\ \A w \in Workers :
          /\ (pc[w] \notin Resting) ~> (pc[w] \in {"loop_sleep", "loop_except"})
          /\ (~running) ~> (running \/ pc[w] \in {"off", "exited"})

(* stop has been called while a worker is inside a cycle *)
C23_Witness ==
    /\ ~running /\ ret.op = "stop"
    /\ \E w \in Workers : pc[w] \notin Resting /\ frame[w].trace # <<>>

(* C24 as claimed: on a graph preloaded with isolated nodes and an empty    *)
(* episodic store, every outcome of dream_once reports new_connections >= 1 *)
(* and memories_pruned = 0, and the graph file exists when the call         *)
(* returns.                                                                 *)
C24_AlwaysConnects ==
    (ret.op = "dream" /\ ~ret.raised) =>
        /\ ret.report.new_connections >= 1
        /\ ret.report.memories_pruned = 0
        /\ saved.exists

(* C24 amended: every outcome of dream_once on that graph reports           *)
(* memories_pruned = 0 and a new_connections between 0 and 3 that counts    *)
(* the walks whose ends differ (0 when every walk ends where it started,    *)
(* and then the graph has no edge), and the graph file exists when the call *)
(* returns or raises.                                                       *)
C24_SeededDream ==
    ret.op = "dream" =>
        /\ saved.exists
        /\ DOMAIN nodes = Seeded
        /\ ~ret.raised =>
              /\ ret.report.memories_pruned = 0
              /\ ret.report.new_connections \in 0..3
              /\ ret.report.new_connections = Count(ret.trace, "connect")
              /\ ret.report.new_connections = 0 <=> edges = <<>>

(* a cycle whose three walks all ended where they started has returned *)
C24_Witness ==
    /\ ret.op = "dream" /\ ~ret.raised
    /\ ret.report.new_connections = 0
    /\ Count(ret.trace, "random_walk") = 3
    /\ saved.exists /\ saved.edges = <<>>

NewEpisodic(t) == episodic \ frame[t].stored

(* The two records of the turn among them *)
TurnRecords(t) ==
    {r \in NewEpisodic(t) :
        \/ r.source = "user" /\ r.importance = USER_IMPORTANCE
                              /\ r.content = frame[t].message
        \/ r.source = "assistant" /\ r.importance = RESPONSE_IMPORTANCE
                                   /\ r.content = frame[t].response}

(* What a think without a provider has done when it is about to return,     *)
(* apart from its episodic records: no raise, the summary as the response,  *)
(* no provider call, one user and one assistant entry at the end of the     *)
(* conversation                                                             *)
SummaryThink ==
    /\ (adapter = "none" /\ ret.op = "think") =>
           (~ret.raised /\ ret.response = "summary" /\ Count(ret.trace, "llm") = 0)
    /\ (adapter = "none" /\ pc["fg"] = "think_return") =>
           LET f == frame["fg"]
               n == Len(conversation)
           IN  /\ f.response = "summary"
               /\ Count(f.trace, "llm") = 0
               /\ Count(f.trace, "conversation") = 1
               /\ n >= 2
               /\ conversation[n - 1] = [role |-> "user", content |-> f.message]
               /\ conversation[n] = [role |-> "assistant", content |-> f.response]

(* C26: a think without a provider never raises, returns the non-empty      *)
(* summary of the concepts and the recalled count, calls no provider,       *)
(* appends exactly one user and one assistant entry to the conversation and *)
(* stores exactly two new episodic records, the user message at importance  *)
(* 0.5 and the response at importance 0.4                                   *)
C26_ExactlyTwoRecords ==
    /\ SummaryThink
    /\ (adapter = "none" /\ pc["fg"] = "think_return") =>
           /\ Cardinality(NewEpisodic("fg")) = 2
           /\ TurnRecords("fg") = NewEpisodic("fg")

(* C26 as the program has it: besides the two records of the turn, the      *)
(* think stores one record of source working_overflow, at importance 0.4,   *)
(* for every item its two pushes evict from a full working memory           *)
C26_TurnAndOverflowRecords ==
    /\ SummaryThink
    /\ (adapter = "none" /\ pc["fg"] = "think_return") =>
           LET new  == NewEpisodic("fg")
               rest == new \ TurnRecords("fg")
           IN  /\ Cardinality(TurnRecords("fg")) = 2
               /\ \E u, a \in TurnRecords("fg") : u.source = "user" /\ a.source = "assistant"
               /\ \A r \in rest : /\ r.source = "working_overflow"
                                   /\ r.importance = OVERFLOW_IMPORTANCE
               /\ Cardinality(rest) <= 2
               /\ Cardinality(rest) =
                      Max(0, Min(2, Len(pushed) - capacity))
               /\ (Len(pushed) <= capacity) => rest = {}

(* a think without a provider is about to return and its second push has    *)
(* evicted an item from the full working memory                             *)
C26_Witness ==
    /\ adapter = "none" /\ pc["fg"] = "think_return"
    /\ Cardinality(TurnRecords("fg")) = 2
    /\ Cardinality(NewEpisodic("fg")) = 3
    /\ frame["fg"].concepts # <<>>

(* The nodes joined to n by an edge, in either direction *)
Adjacent(g, n) ==
    {m \in DOMAIN g.nodes : \E e \in Range(g.edges) :
        \/ e.source = n /\ e.target = m
        \/ e.target = n /\ e.source = m}

(* The sum, as the walk weighs them, of the edges at n: an edge from n to   *)
(* n counts twice, once as outgoing and once as incoming                    *)
IncidentTotal(g, n, prefer_distant) ==
    LET at == {i \in 1..Len(g.edges) : g.edges[i].source = n \/ g.edges[i].target = n}
        w(i) == WalkWeight(g.edges[i].weight, prefer_distant)
                  * (IF g.edges[i].source = n /\ g.edges[i].target = n THEN 2 ELSE 1)
        RECURSIVE Sum(_)
        Sum(S) == IF S = {} THEN 0
                  ELSE LET x == CHOOSE y \in S : TRUE IN w(x) + Sum(S \ {x})
    IN  Sum(at)

(* C27: random_walk never raises and never changes the graph; on an empty  *)
(* graph it returns the empty path; otherwise it returns steps + 1 node ids *)
(* of the graph, the first being the start when the start is in the graph;  *)
(* every step follows an edge at the current node in either direction, or   *)
(* jumps, which it does only when the node has no edge or the weights of    *)
(* its edges sum to zero; on a single isolated node the path is that node   *)
(* steps + 1 times                                                          *)
C27_RandomWalk ==
    ret.op = "random_walk" =>
        LET g == ret.before
            p == ret.path
        IN  /\ ~ret.raised
            /\ Graph = g
            /\ (DOMAIN g.nodes = {}) => p = <<>>
            /\ (DOMAIN g.nodes # {}) =>
                   /\ Len(p) = ret.steps + 1
                   /\ \A i \in 1..Len(p) : p[i] \in DOMAIN g.nodes
                   /\ (ret.start # "" /\ Norm(ret.start) \in DOMAIN g.nodes)
                          => p[1] = Norm(ret.start)
                   /\ \A i \in 1..(Len(p) - 1) :
                          \/ p[i + 1] \in Adjacent(g, p[i])
                          \/ Adjacent(g, p[i]) = {}
                          \/ IncidentTotal(g, p[i], ret.prefer_distant) = 0
                   /\ (Cardinality(DOMAIN g.nodes) = 1 /\ g.edges = <<>>) =>
                          \A i \in 1..Len(p) : DOMAIN g.nodes = {p[i]}

(* a walk of three steps from an existing start has followed an edge        *)
(* against its direction and has jumped from a node whose edges weigh zero  *)
(* in sum                                                                   *)
C27_Witness ==
    /\ ret.op = "random_walk" /\ ret.steps = 3 /\ Len(ret.path) = 4
    /\ Norm(ret.start) \in DOMAIN nodes /\ ret.path[1] = Norm(ret.start)
    /\ \E i \in 1..3 :
          /\ IncidentTotal(Graph, ret.path[i], ret.prefer_distant) # 0
          /\ ret.path[i + 1] \in Adjacent(Graph, ret.path[i])
          /\ \A e \in Range(edges) : ~(e.source = ret.path[i] /\ e.target = ret.path[i + 1])
    /\ \E i \in 1..3 :
          /\ IncidentTotal(Graph, ret.path[i], ret.prefer_distant) = 0
          /\ Adjacent(Graph, ret.path[i]) # {}
          /\ ret.path[i + 1] \notin Adjacent(Graph, ret.path[i])

(* The nodes within d hops of n when the direction of the edges is ignored *)
RECURSIVE Within(_, _, _)
Within(g, n, d) ==
    IF d <= 0 THEN {n}
    ELSE LET inner == Within(g, n, d - 1)
         IN  inner \cup UNION {Adjacent(g, m) : m \in inner}

(* C28: one activate call updates a node at most once and changes and      *)
(* returns only nodes within depth hops of the named node, the direction of *)
(* the edges ignored; every other node, every other attribute and every     *)
(* edge stay as they were; activate on a name that is not in the graph      *)
(* returns the empty mapping and changes nothing                            *)
C28_ActivateFrame ==
    ret.op = "activate" =>
        LET g    == ret.before
            seed == Norm(ret.name)
            near == Within(g, seed, ret.depth)
        IN  /\ edges = g.edges
            /\ DOMAIN nodes = DOMAIN g.nodes
            /\ seed \notin DOMAIN g.nodes => (ret.activated = NoNodes /\ nodes = g.nodes)
            /\ seed \in DOMAIN g.nodes =>
                   /\ DOMAIN ret.activated \subseteq near
                   /\ \A n \in DOMAIN nodes :
                          /\ n \notin DOMAIN ret.activated => nodes[n] = g.nodes[n]
                          /\ nodes[n] = [g.nodes[n] EXCEPT !.activation = nodes[n].activation]
                   /\ \A n \in DOMAIN ret.activated : ret.activated[n] = nodes[n].activation
                   /\ nodes[seed].activation
                          = Min(ONE, g.nodes[seed].activation + ret.strength)

(* an activate of depth 1 on three concepts, all within two hops of the     *)
(* seed, has returned the seed and one neighbour and left out the third     *)
C28_Witness ==
    /\ ret.op = "activate" /\ ret.depth = 1
    /\ Cardinality(DOMAIN nodes) = 3
    /\ Cardinality(DOMAIN ret.activated) = 2
    /\ Within(Graph, Norm(ret.name), 2) = DOMAIN nodes
    /\ nodes[Norm(ret.name)].activation < ONE

(* What one step of the discovery of thread t does: a walk changes        *)
(* nothing in the graph and is followed by a connect exactly when its ends  *)
(* differ; the connect is connect(first, last, semantic, 0.2, 0.3) and      *)
(* counts one new connection                                                *)
DiscoveryStep(t) ==
    LET f  == frame[t]
        f2 == frame'[t]
    IN  (pc[t] = "dream_discover" /\ f2 # f /\ f.i <= WALKS) =>
           IF f.inop = "none"
             THEN /\ f2.trace = Append(f.trace, "random_walk")
                  /\ nodes' = nodes /\ edges' = edges
                  /\ f2.report = f.report
                  /\ IF f2.inop = "connect"
                       THEN /\ f2.i = f.i
                            /\ Len(f2.walk) = 2 /\ f2.walk[1] # f2.walk[2]
                            /\ {f2.walk[1], f2.walk[2]} \subseteq DOMAIN nodes
                       ELSE f2.i = f.i + 1 /\ f2.inop = "none"
             ELSE /\ f.inop = "connect"
                  /\ f2.trace = Append(f.trace, "connect")
                  /\ f2.i = f.i + 1
                  /\ f2.report.new_connections = f.report.new_connections + 1
                  /\ nodes' = nodes
                  /\ LET old == {i \in 1..Len(edges) :
                                   /\ edges[i].source = f.walk[1]
                                   /\ edges[i].target = f.walk[2]
                                   /\ edges[i].edge_type = "semantic"}
                     IN  IF old = {}
                           THEN /\ Len(edges') = Len(edges) + 1
                                /\ \A i \in 1..Len(edges) : edges'[i] = edges[i]
                                /\ LET e == edges'[Len(edges')]
                                   IN  /\ e.source = f.walk[1] /\ e.target = f.walk[2]
                                       /\ e.edge_type = "semantic"
                                       /\ e.weight = DISCOVERY_WEIGHT
                                       /\ e.confidence = DISCOVERY_CONFIDENCE
                           ELSE /\ Len(edges') = Len(edges)
                                /\ \A i \in 1..Len(edges) :
                                      i \notin old => edges'[i] = edges[i]

(* The walks and connects of a discovery that has ended *)
DiscoveryDone(tr, report) ==
    /\ Count(tr, "random_walk") = WALKS
    /\ report.new_connections = Count(tr, "connect")
    /\ report.new_connections \in 0..WALKS
    /\ \A i \in 1..Len(tr) : tr[i] = "connect" => (i > 1 /\ tr[i - 1] = "random_walk")

(* C29: the discovery step of a dream makes exactly three random walks of   *)
(* four steps; for every walk whose first and last node differ it calls     *)
(* connect(first, last, semantic, weight 0.2, confidence 0.3);              *)
(* new_connections is the number of those walks, between 0 and 3; a walk    *)
(* whose ends are equal changes nothing                                     *)
C29_Discovery ==
    /\ [](\A p \in RandomWalks(Graph, WALK_STEPS) :
             Len(p) = IF DOMAIN nodes = {} THEN 0 ELSE WALK_STEPS + 1)
    /\ [](\A t \in Callers :
             /\ pc[t] \in {"dream_hypothesize", "dream_clusters", "dream_report"}
                   => DiscoveryDone(frame[t].trace, frame[t].report)
             /\ pc[t] = "dream_discover" =>
                   Count(frame[t].trace, "random_walk")
                     = (frame[t].i - 1) + (IF frame[t].inop = "connect" THEN 1 ELSE 0))
    /\ [](ret.op = "dream" /\ ~ret.raised => DiscoveryDone(ret.trace, ret.report))
    /\ [][\A t \in Callers : DiscoveryStep(t)]_vars

(* a dream has returned whose three walks connected two pairs of nodes and  *)
(* ended once on the node they began on                                     *)
C29_Witness ==
    /\ ret.op = "dream" /\ ~ret.raised
    /\ ret.report.new_connections = 2
    /\ Count(ret.trace, "random_walk") = 3
    /\ Len(edges) = 2
    /\ \A i \in 1..2 : /\ edges[i].weight = DISCOVERY_WEIGHT
                        /\ edges[i].confidence = DISCOVERY_CONFIDENCE
                        /\ edges[i].edge_type = "semantic"

(* The episodic records with fewer than 20 newer ones, and the important   *)
(* ones among them                                                          *)
MostRecent ==
    {r \in episodic : Cardinality({q \in episodic : q.memory_id > r.memory_id}) < 20}

ImportantRecent == {r \in MostRecent : r.importance >= 60}

(* C30: the consolidation step of a dream leaves every record of            *)
(* importance 0.6 or more among the (up to) 20 most recent episodic records *)
(* in the semantic store under its memory_id, inserts no record below 0.6,  *)
(* and reports as memories_consolidated the number of records of 0.6 or     *)
(* more among those 20                                                      *)
C30_Consolidation ==
    [][\A t \in Callers :
         (pc[t] = "dream_consolidate" /\ pc'[t] # "dream_consolidate") =>
            /\ ImportantRecent \subseteq semantic'
            /\ \A r \in ImportantRecent :
                  Cardinality({q \in semantic' : q.memory_id = r.memory_id}) = 1
            /\ \A r \in semantic' \ semantic : r \in ImportantRecent
            /\ \A r \in semantic \ semantic' : \E q \in ImportantRecent : q.memory_id = r.memory_id
            /\ frame'[t].report.memories_consolidated = Cardinality(ImportantRecent)
            /\ episodic' = episodic]_vars

(* a consolidation is over that found more than 20 episodic records, put a  *)
(* recent important one into the semantic store and left out both an older  *)
(* important one and a recent one below 0.6                                 *)
C30_Witness ==
    /\ pc["fg"] = "dream_decay" /\ frame["fg"].inop = "none"
    /\ Cardinality(episodic) > 20
    /\ frame["fg"].report.memories_consolidated >= 1
    /\ \E r \in ImportantRecent : r \in semantic
    /\ \E r \in episodic \ MostRecent : r.importance >= 60 /\ r \notin semantic
    /\ \E r \in MostRecent : r.importance = 59 /\ r \notin semantic

(* Whether record d comes before record k in (importance, timestamp)      *)
(* descending order                                                         *)
RanksAbove(d, k) ==
    \/ d.importance > k.importance
    \/ d.importance = k.importance /\ d.memory_id > k.memory_id

(* What a prune that turned the table `before` into `after` and reported    *)
(* `pruned` has done                                                        *)
Pruned(before, after, keep, pruned) ==
    /\ after \subseteq before
    /\ Cardinality(after) = Min(Cardinality(before), keep)
    /\ pruned = Cardinality(before) - Cardinality(after)
    /\ \A d \in before \ after : \A k \in after : ~RanksAbove(d, k)

(* C31: episodic.prune(keep) leaves min(count_before, keep) records,        *)
(* returns the number it deleted and deletes no record that ranks above a   *)
(* retained one in (importance, timestamp) order; so after a dream cycle    *)
(* without concurrent writers the episodic store holds at most 500 records  *)
(* and memories_pruned is the number deleted                                *)
C31_Prune ==
    /\ []((ret.op = "prune" /\ pc["fg"] = "idle") =>
              Pruned(ret.before, episodic, ret.keep, ret.pruned))
    /\ []((ret.op = "dream" /\ ~ret.raised /\ pc["fg"] = "idle") =>
              Cardinality(episodic) <= 500)
    /\ [][(pc["fg"] = "dream_prune" /\ pc'["fg"] # "dream_prune") =>
              /\ Pruned(episodic, episodic', 500, frame'["fg"].report.memories_pruned)
              /\ Cardinality(episodic') <= 500]_vars
    /\ [][(frame["fg"].call = "dream" /\ pc["fg"] # "dream_prune") =>
              (/\ episodic' = episodic
               /\ pc'["fg"] # "idle" =>
                     frame'["fg"].report.memories_pruned
                       = frame["fg"].report.memories_pruned)]_vars

(* a dream cycle has returned that found 502 episodic records, deleted two  *)
(* of the least important and kept a newer record of higher importance      *)
C31_Witness ==
    /\ ret.op = "dream" /\ ~ret.raised /\ pc["fg"] = "idle"
    /\ ret.report.memories_pruned = 2
    /\ Cardinality(episodic) = 500
    /\ \E r \in episodic : r.memory_id > Filled /\ r.importance = 80
    /\ FilledRecord(2) \notin episodic

(* C32: nodes are keyed by the lowercased, trimmed name; add_concept on a   *)
(* missing node creates it with activation 0 and frequency 1; on an         *)
(* existing node it adds 1 to frequency, sets importance to the larger of   *)
(* old and new, fills the domain only if it was empty, and leaves the       *)
(* activation, every other node and every edge unchanged                    *)
C32_AddConcept ==
    /\ DOMAIN nodes \subseteq {"a", "b"}
    /\ ret.op = "add_concept" =>
          LET g   == ret.before
              id  == IF ret.name \in {"a", " A "} THEN "a" ELSE "b"
              new == nodes[id]
          IN  /\ edges = g.edges
              /\ DOMAIN nodes = DOMAIN g.nodes \cup {id}
              /\ \A n \in DOMAIN g.nodes \ {id} : nodes[n] = g.nodes[n]
              /\ IF id \notin DOMAIN g.nodes
                   THEN /\ new.activation = 0
                        /\ new.frequency = 1
                        /\ new.importance = ret.importance
                        /\ new.domain = ret.domain
                   ELSE LET old == g.nodes[id]
                        IN  /\ new.frequency = old.frequency + 1
                            /\ new.importance = Max(old.importance, ret.importance)
                            /\ new.domain = IF old.domain = "" THEN ret.domain
                                             ELSE old.domain
                            /\ new.activation = old.activation
                            /\ new.name = old.name

(* add_concept under a name in another case, with another domain and a      *)
(* lower importance, has met a node that has a domain, an edge and a        *)
(* raised activation                                                        *)
C32_Witness ==
    /\ ret.op = "add_concept" /\ ret.name = " A " /\ ret.domain = "d2"
    /\ "a" \in DOMAIN ret.before.nodes
    /\ nodes["a"].domain = "d1"
    /\ nodes["a"].importance > ret.importance
    /\ nodes["a"].activation > 0
    /\ nodes["a"].frequency >= 2
    /\ edges # <<>>

(* The places of the co-occurrence edges from a to b in an edge list *)
CoEdges(es, a, b) ==
    {i \in 1..Len(es) : /\ es[i].source = a /\ es[i].target = b
                         /\ es[i].edge_type = "cooccurrence"}

(* What the connect_cooccurrence step of a learn does, where reinforced(w)  *)
(* is the weight of an edge of weight w after its reinforcement             *)
LearnConnects(reinforced(_)) ==
    (pc["fg"] = "learn_connect" /\ pc'["fg"] = "learn_save") =>
        LET cs    == frame["fg"].concepts
            k     == Len(cs)
            pairs == {p \in (1..k) \X (1..k) : p[1] < p[2]}
            fresh == {p \in pairs : CoEdges(edges, cs[p[1]], cs[p[2]]) = {}}
        IN  /\ k < 2 => edges' = edges
            /\ Len(edges') = Len(edges) + Cardinality(fresh)
            /\ \A i \in 1..Len(edges) :
                  (\A p \in pairs : i \notin CoEdges(edges, cs[p[1]], cs[p[2]]))
                     => edges'[i] = edges[i]
            /\ \A p \in pairs :
                  LET old == CoEdges(edges, cs[p[1]], cs[p[2]])
                      new == CoEdges(edges', cs[p[1]], cs[p[2]])
                  IN  /\ Cardinality(new) = 1
                      /\ \A i \in new :
                            IF old = {}
                              THEN /\ edges'[i].weight = 40
                                   /\ edges'[i].reinforced_count = 1
                              ELSE /\ i \in old
                                   /\ edges'[i].weight = reinforced(edges[i].weight)
                                   /\ edges'[i].reinforced_count
                                         = edges[i].reinforced_count + 1

(* What a learn that has returned leaves behind: its record in the semantic *)
(* store, as SEMANTIC, and the graph on disk                                *)
LearnStored ==
    (ret.op = "learn" /\ pc["fg"] = "idle") =>
        /\ saved = NodeLinkData(Graph)
        /\ \E r \in semantic : /\ r.content = ret.message
                               /\ r.memory_type = "semantic"
                               /\ r.source = "learn"

Plus5(w) == w + 5

Plus5AtMost100(w) == IF w + 5 > 100 THEN 100 ELSE w + 5

(* C33: learn on content with k >= 2 distinct concepts connects every       *)
(* unordered pair of them once, by a co-occurrence edge from the earlier to *)
(* the later concept: with no prior edge between them that makes            *)
(* k(k-1)/2 edges of weight 0.4, and a pair that has the edge is reinforced *)
(* by 0.05 instead; with fewer than two concepts no edge is created; the    *)
(* record is stored as SEMANTIC and the graph is saved before learn returns *)
C33_LearnConnectsPairs == []LearnStored /\ [][LearnConnects(Plus5)]_vars

(* C33 as the program has it: the reinforcement adds 0.05 up to the weight  *)
(* 1.0, where it stops                                                      *)
C33_LearnReinforcesToOne == []LearnStored /\ [][LearnConnects(Plus5AtMost100)]_vars

(* a learn of three concepts has returned that made two edges of weight 0.4 *)
(* and reinforced the third, which stood at 0.98, to 1.0                    *)
C33_Witness ==
    /\ ret.op = "learn" /\ pc["fg"] = "idle" /\ Len(ret.concepts) = 3
    /\ Len(edges) = 3
    /\ \E i \in CoEdges(edges, "y", "z") :
          edges[i].weight = 100 /\ edges[i].reinforced_count = 2
    /\ \E i \in CoEdges(edges, "x", "y") : edges[i].weight = 40
    /\ \E i \in CoEdges(edges, "x", "z") : edges[i].weight = 40

LoopThreads == {w \in Workers : pc[w] \notin {"off", "exited"}}

(* C35: across any sequence of start() and stop() calls, also a stop()      *)
(* followed at once by a start() while the previous worker sleeps between   *)
(* two cycles, at most one loop thread is able to begin dream cycles at any *)
(* time; start() while the loop is running spawns no thread                 *)
C35_OneLoopThread == running => Cardinality(LoopThreads) <= 1

(* The statements of think up to the provider's call *)
BeforeChat == {"think_recall", "think_activate", "think_add", "think_connect", "think_chat"}

(* C36: when the provider's chat raises during think, the call has stored   *)
(* no memory record (working memory and the episodic, semantic and          *)
(* procedural stores are as before the call), appended nothing to the       *)
(* conversation and not saved the graph, while the graph in memory carries  *)
(* the activation changes, the concepts and the co-occurrence edges of the  *)
(* statements before the call of the provider.                              *)
C36_RaiseStoresNothing ==
    /\ [][(pc["fg"] \in BeforeChat \/ pc'["fg"] = "think_recall")
            => /\ working' = working /\ episodic' = episodic
               /\ semantic' = semantic /\ procedural' = procedural
               /\ conversation' = conversation /\ saved' = saved]_vars
    /\ [][(pc["fg"] = "think_chat" /\ pc'["fg"] = "idle")
            => /\ ret'.op = "think" /\ ret'.raised
               /\ episodic' = frame["fg"].stored
               /\ \A i \in 1..Len(ret'.concepts) : ret'.concepts[i] \in DOMAIN nodes'
               /\ \A i, j \in 1..Len(ret'.concepts) :
                     i < j => CoEdges(edges', ret'.concepts[i], ret'.concepts[j]) # {}
               /\ \A n \in DOMAIN ret'.activated :
                     /\ n \in DOMAIN nodes'
                     /\ nodes'[n].activation = ret'.activated[n]]_vars

(* A think raised in the provider's call after an earlier think had stored  *)
(* its turns: the graph in memory is ahead of the saved file                *)
C36_Witness ==
    /\ pc["fg"] = "idle" /\ ret.op = "think" /\ ret.raised
    /\ Len(ret.concepts) > 1
    /\ DOMAIN ret.activated # {}
    /\ episodic # {} /\ working # <<>> /\ conversation # <<>>
    /\ saved.exists /\ saved # NodeLinkData(Graph)

(* The statements of dream_once after the save of the graph *)
AfterDreamSave ==
    {"dream_prune", "dream_discover", "dream_hypothesize", "dream_clusters", "dream_report"}

(* C37: the document a dream cycle writes is the graph after the decay and  *)
(* before the discovery: the edges the cycle's discovery creates or         *)
(* reinforces are in memory when the cycle returns and not in the saved     *)
(* document until a later save; when think or learn returns normally, no    *)
(* dream cycle running beside it, the saved document equals the graph in    *)
(* memory.                                                                  *)
C37_DreamDocument ==
    /\ [][(frame["fg"].call = "dream" /\ saved' # saved)
            => /\ saved' = NodeLinkData(Graph)
               /\ nodes' = nodes /\ edges' = edges
               /\ Count(frame["fg"].trace, "decay_all") = 1
               /\ Count(frame["fg"].trace, "random_walk") = 0
               /\ Count(frame["fg"].trace, "connect") = 0]_vars
    /\ [][pc["fg"] \in AfterDreamSave => saved' = saved]_vars
    /\ [][(pc["fg"] = "dream_discover" /\ edges' # edges)
            => \A i \in 1..Len(edges') :
                  (i > Len(edges) \/ edges'[i] # edges[i])
                  => /\ edges'[i].edge_type = "semantic"
                     /\ \A j \in 1..Len(saved.edges) : saved.edges[j] # edges'[i]]_vars
    /\ [][(pc["fg"] = "dream_report" /\ pc'["fg"] = "idle")
            => /\ Count(ret'.trace, "save") = 1
               /\ saved.nodes = NodeLinkData(Graph').nodes
               /\ (ret'.report.new_connections = 0) = (saved = NodeLinkData(Graph'))
               /\ ret'.report.new_connections > 0
                     => \E i \in 1..Len(edges') :
                           /\ edges'[i].edge_type = "semantic"
                           /\ \A j \in 1..Len(saved.edges) : saved.edges[j] # edges'[i]]_vars
    /\ [][(pc["fg"] \in {"think_return", "learn_save"} /\ pc'["fg"] = "idle")
            => /\ ~ret'.raised
               /\ saved' = NodeLinkData(Graph')]_vars

(* A dream has returned whose discovery connected two concepts and then    *)
(* reinforced that edge: the saved document, written before, has the       *)
(* co-occurrence edges only                                                 *)
C37_Witness ==
    /\ pc["fg"] = "idle" /\ ret.op = "dream" /\ ~ret.raised
    /\ ret.report.new_connections > 1
    /\ saved.exists /\ saved # NodeLinkData(Graph)
    /\ saved.edges # <<>>
    /\ \A j \in 1..Len(saved.edges) : saved.edges[j].edge_type = "cooccurrence"
    /\ \E i \in 1..Len(edges) :
          edges[i].edge_type = "semantic" /\ edges[i].reinforced_count > 1

(* The concepts of the first call of all when it was a think: the graph was *)
(* empty, so the think found none of them in it                             *)
FirstThinkConcepts ==
    UNION {Range(ExtractConcepts(r.content)) :
             r \in {q \in episodic : q.memory_id = 1 /\ q.source = "user"}}

(* What a think whose concepts were all absent from the graph leaves *)
AbsentThink(f) ==
    LET mentioned == Range(f.concepts)
    IN  (mentioned # {} /\ mentioned \cap DOMAIN f.before = {})
          => /\ ret'.activated = NoNodes
             /\ \A n \in DOMAIN f.before :
                   n \in DOMAIN nodes' /\ nodes'[n].activation = f.before[n].activation
             /\ \A c \in mentioned : c \in DOMAIN nodes' /\ nodes'[c].activation = 0

(* A think raises the activation of the concepts it mentions that were in   *)
(* the graph                                                                *)
MentionRaises(f) ==
    \A c \in Range(f.concepts) \cap DOMAIN f.before :
        /\ nodes'[c].activation >= Min(1000000, f.before[c].activation + THINK_STRENGTH)
        /\ c \in DOMAIN ret'.activated

C39_RecallReadOnly ==
    ret.op \in {"recall", "recall_flat"} =>
        /\ working = ret.before.working
        /\ \A i \in 1..Len(working) : "_layer" \notin DOMAIN working[i]
        /\ episodic = ret.before.episodic
        /\ semantic = ret.before.semantic
        /\ procedural = ret.before.procedural

(* The memory_ids of a store *)
Ids(store) == {r.memory_id : r \in store}

(* C40: in every state reached by remember, think, learn and dream_once     *)
(* alone, every episodic record of importance 0.6 or more is in the         *)
(* semantic store under the same memory_id, so the consolidation of a dream *)
(* adds no new id to the semantic store, and the records of think's turns   *)
(* (0.5 and 0.4) and of evicted items (0.4) are never promoted.             *)
C40_Promoted ==
    /\ [](\A r \in episodic :
             /\ r.importance >= 60 => r \in semantic
             /\ r.importance < 60 => r.memory_id \notin Ids(semantic)
             /\ r.source \in {"assistant", "working_overflow"} => r.importance = 40
             /\ (r.source = "user" /\ r.content = "m_xy") => r.importance = 50)
    /\ [][pc["fg"] = "dream_consolidate" => Ids(semantic') = Ids(semantic)]_vars

(* A dream has consolidated a record that remember had mirrored already;   *)
(* the turns of a think and the item the working memory evicted are in the  *)
(* episodic store and not in the semantic one                               *)
C40_Witness ==
    /\ pc["fg"] = "idle" /\ ret.op = "dream"
    /\ ret.report.memories_consolidated >= 1
    /\ \E r \in episodic : r.importance >= 60 /\ r \in semantic
    /\ \E r \in episodic : r.source = "working_overflow" /\ r.memory_id \notin Ids(semantic)
    /\ \E r \in episodic : r.source = "assistant" /\ r.memory_id \notin Ids(semantic)
    /\ \E r \in episodic : r.content = "m_xy" /\ r.memory_id \notin Ids(semantic)

====
